---- MODULE Spec2Model ----
(***************************************************************************)
(* A model of the Bor consensus engine (consensus/bor/bor.go): header      *)
(* verification (single and batch), the snapshot lookup, Prepare, Seal and *)
(* Authorize.                                                              *)
(*                                                                         *)
(* Conventions.                                                            *)
(*  - An address is a small natural; 0 is the zero address                 *)
(*    (common.Address{}), for which nobody holds a key.                    *)
(*  - Bytes are naturals 0..255 and a byte string is a sequence of them.   *)
(*  - Hash(h) is the tuple of the header's fields: injective, like Keccak  *)
(*    over the RLP of the header is taken to be.                           *)
(*  - A signature is 65 bytes whose last byte names the signing address;   *)
(*    ecrecover reads it back.  An all-zero seal recovers nothing.         *)
(*  - Errors are strings named after the Go error values; "nil" is no      *)
(*    error.                                                               *)
(***************************************************************************)
EXTENDS Integers, Sequences, FiniteSets, TLC

VARIABLES
    config,         \* c.config: Period, Sprint, ProducerDelay, BackupMultiplier
    contractVals,   \* what the validator contract answers to getBorValidators
    chain,          \* the headers the chain reader knows (set of headers)
    recents,        \* c.recents: the snapshot LRU (set of snapshots, keyed by Hash)
    db,             \* c.db: the persisted snapshots (set of snapshots, keyed by Hash)
    now,            \* time.Now().Unix()
    signer,         \* c.signer
    signFn,         \* c.signFn (0 is nil, k > 0 the function installed by Authorize call k)
    lock,           \* c.lock: [writer |-> 0 or the Authorize call holding it, readers |-> set of Seal calls]
    auth,           \* the Authorize calls: [pc, signer]
    seal,           \* the Seal calls and their goroutines
    stop,           \* per Seal call: the stop channel is closed
    timer,          \* per Seal call: "off", "running" or "fired" (time.After(delay))
    results,        \* Seal's results channel: the buffered blocks
    resultsCap,     \* capacity of the results channel
    recvWaiting,    \* a receiver is blocked on the results channel
    received,       \* the blocks the receiver of the results channel got
    vh,             \* the VerifyHeaders call: its batch, the worker's position, the channels
    prep,           \* the Prepare / seal / verify round trip of one produced header
    call,           \* the last single call of an engine function: [op, in, out]
    statedb,        \* the contracts' storage in the StateDB: the validator contract's spans, the state receiver's lastStateId
    heap,           \* the Snapshot and ValidatorSet objects behind the LRU, as the lookups allocate and write them: [snaps, sets, lru]
    finalized       \* the blocks finalized so far: the last one's number, the number to stop at, the numbers at which a span commit was started

vars == << config, contractVals, chain, recents, db, now, signer, signFn, lock,
           auth, seal, stop, timer, results, resultsCap, recvWaiting, received,
           vh, prep, call, statedb, finalized, heap >>

-----------------------------------------------------------------------------
(* Program constants *)

checkpointInterval == 1024
allowFutureBlockTimeSeconds == 3
extraVanity == 32
extraSeal == 65
validatorHeaderBytesLength == 20 + 20

ZeroAddress == 0
ZeroHash == << >>
uncleHash == "emptyUncleHash"

-----------------------------------------------------------------------------
(* Bounds of the model *)

NumAddrs == 3        \* addresses 1..NumAddrs exist besides the zero address
MaxBatch == 2        \* longest batch handed to VerifyHeaders
NumSeals == 1        \* Seal calls
NumAuths == 2        \* Authorize calls
MaxNow == 2          \* clock ticks after the start time
MaxChain == 2        \* the producer builds blocks 1..MaxChain

Addrs == 1..NumAddrs
GenesisTime == 100

-----------------------------------------------------------------------------
(* Byte strings *)

Zeros(n) == [i \in 1..n |-> 0]

Min(a, b) == IF a < b THEN a ELSE b
Max(a, b) == IF a < b THEN b ELSE a

RECURSIVE BytesToInt(_)
BytesToInt(bs) ==
    IF bs = << >> THEN 0
    ELSE 256 * BytesToInt(SubSeq(bs, 1, Len(bs) - 1)) + bs[Len(bs)]

\* Validator.HeaderBytes: address (20 bytes) || voting power (20 bytes, big endian)
HeaderBytes(v) ==
    Zeros(19) \o << v.Address >> \o Zeros(19) \o << v.VotingPower >>

RECURSIVE ValidatorsBytes(_)
ValidatorsBytes(vals) ==
    IF vals = << >> THEN << >>
    ELSE HeaderBytes(Head(vals)) \o ValidatorsBytes(Tail(vals))

RECURSIVE ParseEntries(_)
ParseEntries(bs) ==
    IF bs = << >> THEN << >>
    ELSE << [Address |-> BytesToInt(SubSeq(bs, 1, 20)),
             VotingPower |-> BytesToInt(SubSeq(bs, 21, 40)),
             ProposerPriority |-> 0] >>
         \o ParseEntries(SubSeq(bs, 41, Len(bs)))

\* ParseValidators: the bytes must be a multiple of 40
ParseValidators(bs) ==
    IF Len(bs) % validatorHeaderBytesLength # 0
    THEN [err |-> "errInvalidValidatorBytes", vals |-> << >>]
    ELSE [err |-> "nil", vals |-> ParseEntries(bs)]

-----------------------------------------------------------------------------
(* Validators and validator sets (validator.go, validator_set.go; described *)
(* in sections 3 and 4.B of the specification)                              *)

Validator(a, p) == [Address |-> a, VotingPower |-> p, ProposerPriority |-> 0]

RECURSIVE InsertByAddress(_, _)
InsertByAddress(v, sorted) ==
    IF sorted = << >> THEN << v >>
    ELSE IF v.Address <= Head(sorted).Address THEN << v >> \o sorted
    ELSE << Head(sorted) >> \o InsertByAddress(v, Tail(sorted))

\* sort.Sort(ValidatorsByAddress(vals))
RECURSIVE SortByAddress(_)
SortByAddress(vals) ==
    IF vals = << >> THEN << >>
    ELSE InsertByAddress(Head(vals), SortByAddress(Tail(vals)))

RECURSIVE TotalVotingPower(_)
TotalVotingPower(vals) ==
    IF vals = << >> THEN 0
    ELSE Head(vals).VotingPower + TotalVotingPower(Tail(vals))

AddressesOf(vals) == { vals[i].Address : i \in 1..Len(vals) }

\* ValidatorSet.HasAddress
HasAddress(vs, a) == a \in AddressesOf(vs.Validators)

\* ValidatorSet.GetByAddress: the index of the address, 0 when absent
IndexOfAddress(vals, a) ==
    IF a \in AddressesOf(vals)
    THEN CHOOSE i \in 1..Len(vals) : vals[i].Address = a
    ELSE 0

\* The validator of maximal priority, ties broken by ascending address
FindProposer(vals) ==
    (CHOOSE i \in 1..Len(vals) :
        \A j \in 1..Len(vals) :
            \/ vals[j].ProposerPriority < vals[i].ProposerPriority
            \/ /\ vals[j].ProposerPriority = vals[i].ProposerPriority
               /\ vals[i].Address <= vals[j].Address)

\* NewValidatorSet: the validators in address order, the proposer chosen
NewValidatorSet(vals) ==
    LET sorted == SortByAddress(vals)
    IN  [Validators |-> sorted,
         Proposer |-> IF sorted = << >> THEN ZeroAddress
                      ELSE sorted[FindProposer(sorted)].Address]

\* ValidatorSet.IncrementProposerPriority(1): every validator gains its voting
\* power, the one of maximal priority becomes proposer and pays the total power
IncrementProposerPriority(vs) ==
    LET gained == [i \in 1..Len(vs.Validators) |->
                     [vs.Validators[i] EXCEPT
                        !.ProposerPriority = @ + vs.Validators[i].VotingPower]]
        p      == FindProposer(gained)
        total  == TotalVotingPower(vs.Validators)
    IN  IF vs.Validators = << >> THEN vs
        ELSE [Validators |-> [gained EXCEPT ![p].ProposerPriority = @ - total],
              Proposer |-> gained[p].Address]

RECURSIVE DropZeroPower(_)
DropZeroPower(vals) ==
    IF vals = << >> THEN << >>
    ELSE IF Head(vals).VotingPower = 0 THEN DropZeroPower(Tail(vals))
    ELSE << Head(vals) >> \o DropZeroPower(Tail(vals))

\* ValidatorSet.UpdateWithChangeSet: entries of power 0 are removed, new
\* addresses inserted (priority 0), existing ones get the new power and keep
\* their priority
UpdateWithChangeSet(vs, changes) ==
    LET merged == [i \in 1..Len(changes) |->
                     LET k == IndexOfAddress(vs.Validators, changes[i].Address)
                     IN  [Address |-> changes[i].Address,
                          VotingPower |-> changes[i].VotingPower,
                          ProposerPriority |->
                             IF k = 0 THEN 0 ELSE vs.Validators[k].ProposerPriority]]
        vals   == SortByAddress(DropZeroPower(merged))
    IN  [Validators |-> vals,
         Proposer |-> IF HasAddress([Validators |-> vals], vs.Proposer)
                      THEN vs.Proposer
                      ELSE IF vals = << >> THEN ZeroAddress
                      ELSE vals[FindProposer(vals)].Address]

\* validatorContains(a, x): x's address occurs in a
validatorContains(a, x) == x.Address \in AddressesOf(a)

RECURSIVE AppendMissing(_, _)
AppendMissing(changes, newVals) ==
    IF newVals = << >> THEN changes
    ELSE IF validatorContains(changes, Head(newVals))
         THEN AppendMissing(changes, Tail(newVals))
         ELSE AppendMissing(Append(changes, Head(newVals)), Tail(newVals))

\* a change set that leaves the old validators absent from newVals as they are
ChangeSetKeepingAbsent(oldVals, newVals) ==
    LET olds == [i \in 1..Len(oldVals) |->
                   [oldVals[i] EXCEPT !.VotingPower =
                      IF validatorContains(newVals, oldVals[i])
                      THEN newVals[IndexOfAddress(newVals, oldVals[i].Address)].VotingPower
                      ELSE @]]
    IN  AppendMissing(olds, newVals)

\* The change set getUpdatedValidatorSet builds: every old validator with the
\* power newVals gives it (0 when absent), then the validators only in newVals
ChangeSet(oldVals, newVals) ==
    LET olds == [i \in 1..Len(oldVals) |->
                   [oldVals[i] EXCEPT !.VotingPower =
                      IF validatorContains(newVals, oldVals[i])
                      THEN newVals[IndexOfAddress(newVals, oldVals[i].Address)].VotingPower
                      ELSE 0]]
    IN  AppendMissing(olds, newVals)

getUpdatedValidatorSet(oldValidatorSet, newVals) ==
    UpdateWithChangeSet(oldValidatorSet, ChangeSet(oldValidatorSet.Validators, newVals))

-----------------------------------------------------------------------------
(* Snapshots (snapshot.go; described in sections 3, 4.B and 4.C of the      *)
(* specification)                                                           *)

\* Snapshot.GetSignerSuccessionNumber: the offset of the signer from the
\* proposer in the rotation; fails when the signer is not in the set
GetSignerSuccessionNumber(snap, a) ==
    LET vals == snap.ValidatorSet.Validators
        pi   == IndexOfAddress(vals, snap.ValidatorSet.Proposer)
        si   == IndexOfAddress(vals, a)
    IN  IF pi = 0 THEN [err |-> "UnauthorizedProposerError", n |-> -1]
        ELSE IF si = 0 THEN [err |-> "UnauthorizedSignerError", n |-> -1]
        ELSE [err |-> "nil", n |-> IF si < pi THEN si + Len(vals) - pi ELSE si - pi]

\* Snapshot.Difficulty: len(validators) - succession(signer)
Difficulty(snap, a) ==
    LET s == GetSignerSuccessionNumber(snap, a)
    IN  IF s.err # "nil" THEN 1
        ELSE Len(snap.ValidatorSet.Validators) - s.n

\* newSnapshot
newSnapshot(number, hash, validators) ==
    [Number |-> number, Hash |-> hash,
     ValidatorSet |-> NewValidatorSet(validators),
     Recents |-> << >>]

-----------------------------------------------------------------------------
(* Headers, the chain reader and the validator contract *)

\* types.Header, the fields the engine reads.  Number and Difficulty are -1
\* when nil.
Hash(h) == << h.Number, h.Time, h.ParentHash, h.Difficulty, h.Extra,
              h.MixDigest, h.UncleHash >>

\* chain.GetHeader(hash, number): << >> stands for nil
GetHeader(ch, hash, number) ==
    IF \E h \in ch : Hash(h) = hash /\ h.Number = number
    THEN << CHOOSE h \in ch : Hash(h) = hash /\ h.Number = number >>
    ELSE << >>

\* chain.GetHeaderByNumber(number)
GetHeaderByNumber(ch, number) ==
    IF \E h \in ch : h.Number = number
    THEN << CHOOSE h \in ch : h.Number = number >>
    ELSE << >>

\* GetCurrentValidators / GetCurrentValidatorsByBlockNrOrHash: the contract's
\* getBorValidators(blockNumber)
GetCurrentValidators(cv, blockNumber) == cv[blockNumber]

\* The signature signFn returns for the account
Signature(account) == Zeros(extraSeal - 1) \o << account >>

\* ecrecover: the address that signed the header
ecrecover(header) ==
    IF Len(header.Extra) < extraSeal
    THEN [err |-> "errMissingSignature", signer |-> ZeroAddress]
    ELSE IF header.Extra[Len(header.Extra)] = 0
    THEN [err |-> "errInvalidSignature", signer |-> ZeroAddress]
    ELSE [err |-> "nil", signer |-> header.Extra[Len(header.Extra)]]

\* header.Extra[extraVanity : len(header.Extra)-extraSeal]
ValidatorRegion(extra) == SubSeq(extra, extraVanity + 1, Len(extra) - extraSeal)

isSprintStart(number, sprint) == number % sprint = 0

\* a delay that takes no account of the succession number
DelayWithoutBackup(number, succession, c) ==
    IF number % c.Sprint = 0 THEN c.ProducerDelay ELSE c.Period

\* a delay whose long base falls on the last block of a sprint
DelayAtSprintEnd(number, succession, c) ==
    LET delay == IF (number + 1) % c.Sprint = 0 THEN c.ProducerDelay ELSE c.Period
    IN  IF succession > 0 THEN delay + succession * c.BackupMultiplier ELSE delay

\* CalcProducerDelay
CalcProducerDelay(number, succession, c) ==
    LET delay == IF number % c.Sprint = 0 THEN c.ProducerDelay ELSE c.Period
    IN  IF succession > 0 THEN delay + succession * c.BackupMultiplier ELSE delay

-----------------------------------------------------------------------------
(* Snapshot.apply (snapshot.go; section 4.C of the specification) *)

\* the recent-signers window: the last ceil(N/2) blocks
RecentWindow(snap) == (Len(snap.ValidatorSet.Validators) + 1) \div 2

RecentlySigned(snap, number, a) ==
    \E i \in 1..Len(snap.Recents) :
        /\ snap.Recents[i].signer = a
        /\ snap.Recents[i].number + RecentWindow(snap) > number

applyHeader(c, snap, header) ==
    LET rec == ecrecover(header)
        vs1 == IF (header.Number + 1) % c.Sprint = 0
               THEN LET parsed == ParseValidators(ValidatorRegion(header.Extra))
                    IN  getUpdatedValidatorSet(snap.ValidatorSet, parsed.vals)
               ELSE snap.ValidatorSet
        kept == SelectSeq(snap.Recents,
                          LAMBDA r : r.number + RecentWindow(snap) > header.Number)
    IN  IF header.Number # snap.Number + 1
        THEN [err |-> "errOutOfRangeChain", snap |-> snap]
        ELSE IF rec.err # "nil" THEN [err |-> rec.err, snap |-> snap]
        ELSE IF ~HasAddress(snap.ValidatorSet, rec.signer)
        THEN [err |-> "UnauthorizedSignerError", snap |-> snap]
        ELSE IF RecentlySigned(snap, header.Number, rec.signer)
        THEN [err |-> "errRecentlySigned", snap |-> snap]
        ELSE [err |-> "nil",
              snap |-> [Number |-> header.Number,
                        Hash |-> Hash(header),
                        ValidatorSet |-> IncrementProposerPriority(vs1),
                        Recents |-> Append(kept, [number |-> header.Number,
                                                   signer |-> rec.signer])]]

RECURSIVE apply(_, _, _)
apply(c, snap, headers) ==
    IF headers = << >> THEN [err |-> "nil", snap |-> snap]
    ELSE LET one == applyHeader(c, snap, Head(headers))
         IN  IF one.err # "nil" THEN one
             ELSE apply(c, one.snap, Tail(headers))

-----------------------------------------------------------------------------
(* Bor.snapshot *)

Lookup(store, hash) ==
    IF \E sn \in store : sn.Hash = hash
    THEN << CHOOSE sn \in store : sn.Hash = hash >>
    ELSE << >>

\* recents.Add / snap.store: the entry under the snapshot's hash is replaced
Put(store, snap) == { sn \in store : sn.Hash # snap.Hash } \cup { snap }

Reverse(seq) == [i \in 1..Len(seq) |-> seq[Len(seq) + 1 - i]]

\* The backward walk of Bor.snapshot (the loop `for snap == nil`): the anchor
\* snapshot it ends at, the headers gathered on the way (newest first), and the
\* store after a genesis snapshot was written.
RECURSIVE SnapshotWalk(_, _, _, _, _, _, _, _)
SnapshotWalk(c, cv, ch, rec, store, number, hash, st) ==
    LET cached   == Lookup(rec, hash)
        onDisk   == IF number % checkpointInterval = 0 THEN Lookup(store, hash) ELSE << >>
        genesis  == IF number = 0 THEN GetHeaderByNumber(ch, number) ELSE << >>
        fromPar  == st.parents[Len(st.parents)]
        fromCh   == GetHeader(ch, hash, number)
    IN  IF cached # << >>
        THEN [err |-> "nil", anchor |-> cached[1], headers |-> st.headers, db |-> store]
        ELSE IF onDisk # << >>
        THEN [err |-> "nil", anchor |-> onDisk[1], headers |-> st.headers, db |-> store]
        ELSE IF genesis # << >>
        THEN LET snap == newSnapshot(number, Hash(genesis[1]),
                                     GetCurrentValidators(cv, number + 1))
             IN  [err |-> "nil", anchor |-> snap, headers |-> st.headers,
                  db |-> Put(store, snap)]
        ELSE IF Len(st.parents) > 0
        THEN IF Hash(fromPar) # hash \/ fromPar.Number # number
             THEN [err |-> "ErrUnknownAncestor", anchor |-> << >>,
                   headers |-> st.headers, db |-> store]
             ELSE SnapshotWalk(c, cv, ch, rec, store, number - 1, fromPar.ParentHash,
                               [parents |-> SubSeq(st.parents, 1, Len(st.parents) - 1),
                                headers |-> Append(st.headers, fromPar)])
        ELSE IF fromCh = << >>
             THEN [err |-> "ErrUnknownAncestor", anchor |-> << >>,
                   headers |-> st.headers, db |-> store]
             ELSE SnapshotWalk(c, cv, ch, rec, store, number - 1, fromCh[1].ParentHash,
                               [parents |-> st.parents,
                                headers |-> Append(st.headers, fromCh[1])])

\* a store that caches the snapshot without its recent signers
SnapshotStoreWithoutRecents(rec, w, applied) ==
    IF applied.err # "nil"
    THEN [err |-> applied.err, snap |-> << >>, recents |-> rec, db |-> w.db]
    ELSE [err |-> "nil", snap |-> applied.snap,
          recents |-> Put(rec, [applied.snap EXCEPT !.Recents = << >>]),
          db |-> w.db]

\* a store that persists every snapshot that headers were replayed for
SnapshotStoreEveryReplay(rec, w, applied) ==
    IF applied.err # "nil"
    THEN [err |-> applied.err, snap |-> << >>, recents |-> rec, db |-> w.db]
    ELSE [err |-> "nil", snap |-> applied.snap,
          recents |-> Put(rec, applied.snap),
          db |-> IF Len(w.headers) > 0 THEN Put(w.db, applied.snap) ELSE w.db]

\* a store that caches and never persists
SnapshotStoreNoCheckpoint(rec, w, applied) ==
    IF applied.err # "nil"
    THEN [err |-> applied.err, snap |-> << >>, recents |-> rec, db |-> w.db]
    ELSE [err |-> "nil", snap |-> applied.snap,
          recents |-> Put(rec, applied.snap), db |-> w.db]

\* Bor.snapshot, lines 541-554: the gathered headers were applied on the
\* anchor; the result is cached, and stored at a checkpoint
SnapshotStore(rec, w, applied) ==
    IF applied.err # "nil"
    THEN [err |-> applied.err, snap |-> << >>, recents |-> rec, db |-> w.db]
    ELSE [err |-> "nil", snap |-> applied.snap,
          recents |-> Put(rec, applied.snap),
          db |-> IF /\ applied.snap.Number % checkpointInterval = 0
                    /\ Len(w.headers) > 0
                 THEN Put(w.db, applied.snap) ELSE w.db]

\* Bor.snapshot, lines 531-541: the gathered headers are reversed and applied
SnapshotApply(c, rec, w) ==
    IF w.err # "nil"
    THEN [err |-> w.err, snap |-> << >>, recents |-> rec, db |-> w.db]
    ELSE SnapshotStore(rec, w, apply(c, w.anchor, Reverse(w.headers)))

\* Bor.snapshot: the snapshot at (number, hash), with the LRU and the store as
\* the lookup leaves them.  snap is << >> when err is not "nil".
snapshot(c, cv, ch, rec, store, number, hash, parents) ==
    SnapshotApply(c, rec,
                  SnapshotWalk(c, cv, ch, rec, store, number, hash,
                               [parents |-> parents, headers |-> << >>]))

-----------------------------------------------------------------------------
(* The objects behind the LRU: *Snapshot and *ValidatorSet *)

\* snaps[i] is a Snapshot object whose ValidatorSet field points at sets[j];
\* lru holds, per hash, the object c.recents returns and the snapshot it held
\* when it was added
EmptyHeap == [snaps |-> << >>, sets |-> << >>, lru |-> {}]

\* the snapshot an object holds now
Deref(hp, ref) == [hp.snaps[ref] EXCEPT !.ValidatorSet = hp.sets[@]]

\* loadSnapshot / newSnapshot: a new Snapshot with a new ValidatorSet
Alloc(hp, snap) ==
    [heap |-> [hp EXCEPT
                 !.sets = Append(@, snap.ValidatorSet),
                 !.snaps = Append(@, [snap EXCEPT !.ValidatorSet = Len(hp.sets) + 1])],
     ref  |-> Len(hp.snaps) + 1]

\* a copy that is the validator set itself
ShareValidatorSet(hp, v) == [heap |-> hp, ref |-> v]

\* ValidatorSet.Copy: a new object with the same validators and proposer
CopyValidatorSet(hp, v) ==
    [heap |-> [hp EXCEPT !.sets = Append(@, hp.sets[v])],
     ref  |-> Len(hp.sets) + 1]

\* Snapshot.copy: a new Snapshot with a copy of the validator set
CopySnapshot(hp, ref) ==
    LET cp == CopyValidatorSet(hp, hp.snaps[ref].ValidatorSet)
    IN  [heap |-> [cp.heap EXCEPT
                     !.snaps = Append(@, [hp.snaps[ref] EXCEPT !.ValidatorSet = cp.ref])],
         ref  |-> Len(hp.snaps) + 1]

\* getUpdatedValidatorSet on the object v: `v := oldValidatorSet`, the old
\* validators get their powers, v.UpdateWithChangeSet(changes), `return v`:
\* the object it was given is written and returned
getUpdatedValidatorSetAt(hp, v, newVals) ==
    [heap |-> [hp EXCEPT !.sets[v] = getUpdatedValidatorSet(@, newVals)],
     ref  |-> v]

\* Snapshot.apply, one header, on the Snapshot object ref: on a sprint-end
\* header a copy of the validator set is updated and becomes the snapshot's;
\* the priorities are advanced on the snapshot's set; number, hash and recent
\* signers are written
applyHeaderAt(c, hp, ref, header) ==
    LET own == hp.snaps[ref].ValidatorSet
        upd == IF (header.Number + 1) % c.Sprint = 0
               THEN LET cp == CopyValidatorSet(hp, own)
                    IN  getUpdatedValidatorSetAt(cp.heap, cp.ref,
                            ParseValidators(ValidatorRegion(header.Extra)).vals)
               ELSE [heap |-> hp, ref |-> own]
        val == applyHeader(c, Deref(hp, ref), header).snap
    IN  [upd.heap EXCEPT
           !.sets[upd.ref] = IncrementProposerPriority(@),
           !.snaps[ref] = [val EXCEPT !.ValidatorSet = upd.ref]]

RECURSIVE applyAt(_, _, _, _)
applyAt(c, hp, ref, headers) ==
    IF headers = << >> THEN hp
    ELSE applyAt(c, applyHeaderAt(c, hp, ref, Head(headers)), ref, Tail(headers))

\* Snapshot.apply: the snapshot itself for no headers, else a copy the
\* headers are applied on
applyIn(c, hp, ref, headers) ==
    IF headers = << >> THEN [heap |-> hp, ref |-> ref]
    ELSE LET cp == CopySnapshot(hp, ref)
         IN  [heap |-> applyAt(c, cp.heap, cp.ref, headers), ref |-> cp.ref]

\* c.recents.Add(hash, snap): the entry of the hash names the object
LruAdd(hp, ref) ==
    LET val == Deref(hp, ref)
    IN  IF \E e \in hp.lru : e.Hash = val.Hash /\ e.ref = ref THEN hp
        ELSE [hp EXCEPT !.lru = { e \in @ : e.Hash # val.Hash }
                                 \cup { [Hash |-> val.Hash, ref |-> ref,
                                         inserted |-> val] }]

\* Bor.snapshot on the objects: w is the walk's outcome (anchor and headers),
\* err the lookup's; the anchor is the LRU's object or a new one (from the
\* store or the genesis), the headers are applied, the result is cached.
\* The objects of a lookup that failed are unreachable and are not kept.
snapshotIn(c, hp, w, err) ==
    IF err # "nil" THEN hp
    ELSE LET hit == { e \in hp.lru : e.Hash = w.anchor.Hash }
             a   == IF hit # { }
                    THEN [heap |-> hp, ref |-> (CHOOSE e \in hit : TRUE).ref]
                    ELSE Alloc(hp, w.anchor)
             ap  == applyIn(c, a.heap, a.ref, Reverse(w.headers))
         IN  LruAdd(ap.heap, ap.ref)

\* the objects after the lookup of a header's parent snapshot by Prepare,
\* Seal, verifyCascadingFields or verifySeal, which left the LRU as `after`:
\* a lookup that added nothing to the LRU wrote no object
lookupIn(c, cv, ch, rec, store, hp, header, parents, after) ==
    IF after = rec THEN hp
    ELSE snapshotIn(c, hp,
                    SnapshotWalk(c, cv, ch, rec, store, header.Number - 1,
                                 header.ParentHash,
                                 [parents |-> parents, headers |-> << >>]),
                    "nil")

\* verifyCascadingFields, lines 444-446, on a header that starts a sprint:
\* the validators of a copy of the cached snapshot's set are sorted by address
sortCurrentValidators(c, hp, header) ==
    IF \/ header.Number = 0
       \/ ~isSprintStart(header.Number, c.Sprint)
       \/ ~ \E e \in hp.lru : e.Hash = header.ParentHash
    THEN hp
    ELSE LET e  == CHOOSE e \in hp.lru : e.Hash = header.ParentHash
             cp == CopyValidatorSet(hp, hp.snaps[e.ref].ValidatorSet)
         IN  [cp.heap EXCEPT !.sets[cp.ref].Validators = SortByAddress(@)]

\* the objects after verifyHeader returned r; the sorted copy of a
\* verification that failed is unreachable and is not kept
verifyHeaderIn(c, cv, ch, rec, store, hp, header, parents, r) ==
    LET looked == lookupIn(c, cv, ch, rec, store, hp, header, parents, r.recents)
    IN  IF r.err = "nil" THEN sortCurrentValidators(c, looked, header) ELSE looked

-----------------------------------------------------------------------------
(* Header verification *)

\* the parent looked up in the chain whatever the parents batch holds
ParentFromChain(ch, header, parents) ==
    GetHeader(ch, header.ParentHash, header.Number - 1)

\* The parent a verification uses: the tail of the parents batch when one is
\* given, the chain otherwise
ParentOf(ch, header, parents) ==
    IF Len(parents) > 0 THEN << parents[Len(parents)] >>
    ELSE GetHeader(ch, header.ParentHash, header.Number - 1)

\* Bor.verifySeal, lines 588-622: the checks against the snapshot snap, given
\* the recovered signer r, its succession number succ and the parent
SealError(c, header, snap, r, succ, parent) ==
    IF r.err # "nil" THEN r.err
    ELSE IF ~HasAddress(snap.ValidatorSet, r.signer) THEN "UnauthorizedSignerError"
    ELSE IF succ.err # "nil" THEN succ.err
    ELSE IF /\ parent # << >>
            /\ header.Time < parent[1].Time + CalcProducerDelay(header.Number, succ.n, c)
    THEN "BlockTooSoonError"
    ELSE IF header.Difficulty # Difficulty(snap, r.signer) THEN "WrongDifficultyError"
    ELSE "nil"

verifySealWith(c, header, s, r, parent) ==
    [err |-> IF s.err # "nil" THEN s.err
             ELSE SealError(c, header, s.snap, r,
                            GetSignerSuccessionNumber(s.snap, r.signer), parent),
     recents |-> s.recents, db |-> s.db]

\* Bor.verifySeal
verifySeal(c, cv, ch, rec, store, header, parents) ==
    IF header.Number = 0
    THEN [err |-> "errUnknownBlock", recents |-> rec, db |-> store]
    ELSE verifySealWith(c, header,
                        snapshot(c, cv, ch, rec, store, header.Number - 1,
                                 header.ParentHash, parents),
                        ecrecover(header), ParentOf(ch, header, parents))

\* no check of the validator bytes at all
NoSpanValidatorsError(cv, header) == "nil"

\* The check of a sprint-end header's validator bytes against the contract
\* (verifyCascadingFields, `if isSprintStart(number+1, ...)`)
SpanValidatorsError(cv, header) ==
    LET newValidators == SortByAddress(GetCurrentValidators(cv, header.Number + 1))
        parsed        == ParseValidators(ValidatorRegion(header.Extra))
    IN  IF parsed.err # "nil" THEN parsed.err
        ELSE IF Len(newValidators) # Len(parsed.vals) THEN "errInvalidSpanValidators"
        ELSE IF \E i \in 1..Len(newValidators) :
                    HeaderBytes(newValidators[i]) # HeaderBytes(parsed.vals[i])
        THEN "errInvalidSpanValidators"
        ELSE "nil"

\* no check of the parent's validator bytes at all
NoParentValidatorsError(snap, parent) == "nil"

\* The check of a sprint-start header's parent against the snapshot
\* (verifyCascadingFields, `if isSprintStart(number, ...)`)
ParentValidatorsError(snap, parent) ==
    IF ValidatorRegion(parent.Extra)
         # ValidatorsBytes(SortByAddress(snap.ValidatorSet.Validators))
    THEN "MismatchingValidatorsError"
    ELSE "nil"

\* verifyCascadingFields, lines 413-454: the validator lists of a sprint-end
\* header and of the parent of a sprint-start header
ValidatorListsError(c, cv, header, snap, parent) ==
    IF /\ isSprintStart(header.Number + 1, c.Sprint)
       /\ SpanValidatorsError(cv, header) # "nil"
    THEN SpanValidatorsError(cv, header)
    ELSE IF isSprintStart(header.Number, c.Sprint)
    THEN ParentValidatorsError(snap, parent)
    ELSE "nil"

\* verifyCascadingFields, lines 408-457: with the snapshot lookup s done
verifyCascadingWith(c, cv, ch, header, parents, parent, s, listsE) ==
    IF s.err # "nil" THEN [err |-> s.err, recents |-> s.recents, db |-> s.db]
    ELSE IF listsE # "nil" THEN [err |-> listsE, recents |-> s.recents, db |-> s.db]
    ELSE verifySeal(c, cv, ch, s.recents, s.db, header, parents)

verifyCascadingSnap(c, cv, ch, header, parents, parent, s) ==
    verifyCascadingWith(c, cv, ch, header, parents, parent, s,
                        IF s.err # "nil" THEN "nil"
                        ELSE ValidatorListsError(c, cv, header, s.snap, parent))

verifyCascadingParent(c, cv, ch, rec, store, header, parents, parent) ==
    IF \/ parent = << >>
       \/ parent[1].Number # header.Number - 1
       \/ Hash(parent[1]) # header.ParentHash
    THEN [err |-> "ErrUnknownAncestor", recents |-> rec, db |-> store]
    ELSE IF parent[1].Time + c.Period > header.Time
    THEN [err |-> "ErrInvalidTimestamp", recents |-> rec, db |-> store]
    ELSE verifyCascadingSnap(c, cv, ch, header, parents, parent[1],
                             snapshot(c, cv, ch, rec, store, header.Number - 1,
                                      header.ParentHash, parents))

\* Bor.verifyCascadingFields
verifyCascadingFields(c, cv, ch, rec, store, header, parents) ==
    IF header.Number = 0 THEN [err |-> "nil", recents |-> rec, db |-> store]
    ELSE verifyCascadingParent(c, cv, ch, rec, store, header, parents,
                               ParentOf(ch, header, parents))

\* validateHeaderExtraField
validateHeaderExtraField(extraBytes) ==
    IF Len(extraBytes) < extraVanity THEN "errMissingVanity"
    ELSE IF Len(extraBytes) < extraVanity + extraSeal THEN "errMissingSignature"
    ELSE "nil"

\* Bor.verifyHeader at time t.  (misc.VerifyForkHashes belongs to the chain
\* configuration and is taken to pass.)
StandaloneError(c, t, header, isSprintEnd, signersBytes) ==
    IF header.Number = -1 THEN "errUnknownBlock"
    ELSE IF header.Time > t + allowFutureBlockTimeSeconds THEN "ErrFutureBlock"
    ELSE IF validateHeaderExtraField(header.Extra) # "nil"
    THEN validateHeaderExtraField(header.Extra)
    ELSE IF ~isSprintEnd /\ signersBytes # 0 THEN "errExtraValidators"
    ELSE IF isSprintEnd /\ signersBytes % validatorHeaderBytesLength # 0
    THEN "errInvalidSpanValidators"
    ELSE IF header.MixDigest # 0 THEN "errInvalidMixDigest"
    ELSE IF header.UncleHash # uncleHash THEN "errInvalidUncleHash"
    ELSE IF header.Number > 0 /\ header.Difficulty = -1 THEN "errInvalidDifficulty"
    ELSE "nil"

verifyHeaderWith(c, cv, ch, rec, store, header, parents, standaloneE) ==
    IF standaloneE # "nil" THEN [err |-> standaloneE, recents |-> rec, db |-> store]
    ELSE verifyCascadingFields(c, cv, ch, rec, store, header, parents)

verifyHeader(c, cv, ch, rec, store, t, header, parents) ==
    verifyHeaderWith(c, cv, ch, rec, store, header, parents,
                     StandaloneError(c, t, header,
                                     (header.Number + 1) % c.Sprint = 0,
                                     Len(header.Extra) - extraVanity - extraSeal))

-----------------------------------------------------------------------------
(* Inputs: configurations, contract answers, headers *)

V1 == Validator(1, 1)
V2 == Validator(2, 1)

MkConfig(period, sprint, producerDelay, backupMultiplier) ==
    [Period |-> period, Sprint |-> sprint, ProducerDelay |-> producerDelay,
     BackupMultiplier |-> backupMultiplier]

\* scenario S1/S2 of the specification, and one with a sprint of 2 blocks
BatchConfigs == { MkConfig(2, 4, 4, 2), MkConfig(2, 2, 2, 2) }

MaxBlock == Max(MaxBatch, MaxChain) + 2

\* the validator contract answers with the same validators for every block,
\* in either order
ContractAnswers == { [n \in 1..MaxBlock |-> << V1, V2 >>],
                     [n \in 1..MaxBlock |-> << V2, V1 >>] }

MkHeader(number, time, parentHash, difficulty, valBytes, account) ==
    [Number |-> number, Time |-> time, ParentHash |-> parentHash,
     Difficulty |-> difficulty,
     Extra |-> Zeros(extraVanity) \o valBytes \o Signature(account),
     MixDigest |-> 0, UncleHash |-> uncleHash]

Genesis ==
    [Number |-> 0, Time |-> GenesisTime, ParentHash |-> ZeroHash, Difficulty |-> 1,
     Extra |-> Zeros(extraVanity + extraSeal), MixDigest |-> 0, UncleHash |-> uncleHash]

\* The shapes of the headers of a batch: who signs, how long after the parent,
\* with which difficulty, and whether the parent hash is the parent's
Shapes ==
    { [account |-> 1, dt |-> 2, difficulty |-> 2, linked |-> TRUE],
      [account |-> 2, dt |-> 2, difficulty |-> 2, linked |-> TRUE],
      [account |-> 2, dt |-> 4, difficulty |-> 1, linked |-> TRUE],
      [account |-> 1, dt |-> 4, difficulty |-> 1, linked |-> TRUE],
      [account |-> 3, dt |-> 2, difficulty |-> 2, linked |-> TRUE],
      [account |-> 1, dt |-> 2, difficulty |-> 2, linked |-> FALSE] }

\* the header of a shape on top of prev; a sprint-end header carries the
\* contract's validators
ShapedHeader(c, cv, prev, sh) ==
    MkHeader(prev.Number + 1, prev.Time + sh.dt,
             IF sh.linked THEN Hash(prev) ELSE ZeroHash,
             sh.difficulty,
             IF (prev.Number + 2) % c.Sprint = 0
             THEN ValidatorsBytes(SortByAddress(GetCurrentValidators(cv, prev.Number + 2)))
             ELSE << >>,
             sh.account)

RECURSIVE BuildBatch(_, _, _, _)
BuildBatch(c, cv, prev, shapes) ==
    IF shapes = << >> THEN << >>
    ELSE LET h == ShapedHeader(c, cv, prev, Head(shapes))
         IN  << h >> \o BuildBatch(c, cv, h, Tail(shapes))

ShapeSeqs == UNION { [1..n -> Shapes] : n \in 0..MaxBatch }

-----------------------------------------------------------------------------
(* Bor.VerifyHeaders: the worker goroutine and its caller *)

\* a worker that passes no parents batch
NoParents(headers, i) == << >>

\* a worker that passes the whole batch as parents
WholeBatch(headers, i) == headers

\* headers[:i], the parents batch the worker passes for headers[i]
WorkerParents(headers, i) == SubSeq(headers, 1, i)

\* a results channel that holds one verdict
ResultsOfOne(headers) == 1

\* make(chan error, len(headers))
ResultsCapacity(headers) == Len(headers)

IdleVH ==
    [headers |-> << >>, i |-> 0, pc |-> "idle", err |-> "nil", results |-> << >>,
     abort |-> FALSE, got |-> << >>, sentAfterAbort |-> FALSE]

\* VerifyHeaders(chain, headers, seals): the channels are made and the worker
\* started
VerifyHeaders ==
    /\ vh.pc = "idle"
    /\ \E shapes \in ShapeSeqs :
         LET headers == BuildBatch(config, contractVals, Genesis, shapes)
         IN  vh' = [IdleVH EXCEPT !.headers = headers,
                                  !.pc = IF headers = << >> THEN "done" ELSE "loop"]
    /\ UNCHANGED << heap, statedb, finalized, call, config, contractVals, chain, recents, db, now, signer, signFn,
                    lock, auth, seal, stop, timer, results, resultsCap, recvWaiting,
                    received, prep >>

\* err := c.verifyHeader(chain, header, headers[:i])
WorkerVerify ==
    /\ vh.pc = "loop"
    /\ \E r \in { verifyHeader(config, contractVals, chain, recents, db, now,
                                vh.headers[vh.i + 1],
                                WorkerParents(vh.headers, vh.i)) } :
           /\ vh' = [vh EXCEPT !.pc = "select", !.err = r.err]
           /\ recents' = r.recents
           /\ heap' = verifyHeaderIn(config, contractVals, chain, recents, db, heap,
                          vh.headers[vh.i + 1], WorkerParents(vh.headers, vh.i), r)
           /\ db' = r.db
    /\ UNCHANGED << statedb, finalized, call, config, contractVals, chain, now, signer, signFn, lock, auth,
                    seal, stop, timer, results, resultsCap, recvWaiting, received, prep >>

\* select: case <-abort: return
WorkerSelectAbort ==
    /\ vh.pc = "select"
    /\ vh.abort
    /\ vh' = [vh EXCEPT !.pc = "done"]
    /\ UNCHANGED << heap, statedb, finalized, call, config, contractVals, chain, recents, db, now, signer, signFn,
                    lock, auth, seal, stop, timer, results, resultsCap, recvWaiting,
                    received, prep >>

\* select: case results <- err
WorkerSelectSend ==
    /\ vh.pc = "select"
    /\ Len(vh.results) < ResultsCapacity(vh.headers)
    /\ vh' = [vh EXCEPT !.results = Append(@, vh.err),
                        !.i = @ + 1,
                        !.pc = IF vh.i + 1 = Len(vh.headers) THEN "done" ELSE "loop",
                        !.sentAfterAbort = @ \/ vh.abort]
    /\ UNCHANGED << heap, statedb, finalized, call, config, contractVals, chain, recents, db, now, signer, signFn,
                    lock, auth, seal, stop, timer, results, resultsCap, recvWaiting,
                    received, prep >>

\* the caller closes the abort channel
CallerAbort ==
    /\ ~vh.abort
    /\ vh.pc # "idle"
    /\ vh' = [vh EXCEPT !.abort = TRUE]
    /\ UNCHANGED << heap, statedb, finalized, call, config, contractVals, chain, recents, db, now, signer, signFn,
                    lock, auth, seal, stop, timer, results, resultsCap, recvWaiting,
                    received, prep >>

\* the caller receives from the results channel
CallerReceive ==
    /\ vh.results # << >>
    /\ vh' = [vh EXCEPT !.results = Tail(@), !.got = Append(@, Head(vh.results))]
    /\ UNCHANGED << heap, statedb, finalized, call, config, contractVals, chain, recents, db, now, signer, signFn,
                    lock, auth, seal, stop, timer, results, resultsCap, recvWaiting,
                    received, prep >>

-----------------------------------------------------------------------------
(* Bor.Authorize and Bor.Seal *)

SealCalls == 1..NumSeals
AuthCalls == 1..NumAuths

\* a read lock that does not wait for the writer
RLockUnguarded(l) == TRUE

\* sync.RWMutex: RLock waits while a writer holds the lock, Lock waits while
\* anybody holds it
RLockAvailable(l) == l.writer = 0
LockAvailable(l) == l.writer = 0 /\ l.readers = {}

\* a Seal that leaves the signature out of the header
LeaveUnsigned(header, account) == header

\* lines 856-860: the signature of the account over the header is copied over
\* the last extraSeal bytes of header.Extra
SignHeader(header, account) ==
    [header EXCEPT !.Extra =
        SubSeq(header.Extra, 1, Len(header.Extra) - extraSeal) \o Signature(account)]

\* a send on the results channel can proceed: a receiver is waiting or the
\* buffer has room
CanSend(buf, cap, waiting) == waiting \/ Len(buf) < cap

\* a goroutine that tries the send again after the default branch
RetryAfterDefault == "emit"

\* where the goroutine goes after the default branch of the second select
AfterDefault == "done"

\* a Seal that pauses on every empty block, whatever the period
PausedOnEveryEmptyBlock(c, txs) == txs = 0

\* a Seal that never pauses
NeverPaused(c, txs) == FALSE

\* line 825: c.config.Period == 0 && len(block.Transactions()) == 0
SealPaused(c, txs) == c.Period = 0 /\ txs = 0

\* line 840: snap.ValidatorSet.HasAddress(signer.Bytes())
Authorized(snap, sgn) == HasAddress(snap.ValidatorSet, sgn)

\* a Seal that signs for whoever asks
NoRefusal(snap, sgn) == "nil"

\* lines 839-848: the error Seal returns to a signer it does not sign for
SealRefusal(snap, sgn) ==
    IF ~Authorized(snap, sgn) THEN "UnauthorizedSignerError"
    ELSE GetSignerSuccessionNumber(snap, sgn).err

\* the block a Seal call is handed: a prepared header (the seal still zero) and
\* its transactions
SealBlock(number, txs) ==
    [header |-> MkHeader(number, GenesisTime + 2,
                         IF number = 0 THEN ZeroHash ELSE Hash(Genesis),
                         2, << >>, 0),
     txs |-> txs]

IdleSealCall ==
    [pc |-> "idle", g |-> "none", block |-> SealBlock(0, 0),
     lsigner |-> ZeroAddress, lsignFn |-> 0, ret |-> "none", log |-> {},
     member |-> FALSE, checked |-> ZeroAddress, signCalls |-> 0,
     signAccount |-> ZeroAddress, signFnUsed |-> 0, timerAtSign |-> "off",
     stopEarly |-> FALSE, stopAtSelect |-> FALSE, delivered |-> 0, dropped |-> FALSE]

\* Authorize, first half: c.lock.Lock(); c.signer = signer
AuthLock(j) ==
    /\ auth[j].pc = "idle"
    /\ LockAvailable(lock)
    /\ \E a \in Addrs :
         /\ auth' = [auth EXCEPT ![j] = [pc |-> "locked", signer |-> a]]
         /\ signer' = a
    /\ lock' = [lock EXCEPT !.writer = j]
    /\ UNCHANGED << heap, statedb, finalized, call, config, contractVals, chain, recents, db, now, signFn, seal,
                    stop, timer, results, resultsCap, recvWaiting, received, vh, prep >>

\* Authorize, second half: c.signFn = signFn; c.lock.Unlock()
AuthUnlock(j) ==
    /\ auth[j].pc = "locked"
    /\ signFn' = j
    /\ lock' = [lock EXCEPT !.writer = 0]
    /\ auth' = [auth EXCEPT ![j].pc = "done"]
    /\ UNCHANGED << heap, statedb, finalized, call, config, contractVals, chain, recents, db, now, signer, seal,
                    stop, timer, results, resultsCap, recvWaiting, received, vh, prep >>

\* Seal, lines 818-828: the genesis block and the empty block of a 0-period
\* chain are turned away
SealCall(i) ==
    /\ seal[i].pc = "idle"
    /\ \E number \in {0, 1}, txs \in {0, 1} :
         seal' = [seal EXCEPT ![i] =
            IF number = 0
            THEN [@ EXCEPT !.block = SealBlock(number, txs),
                           !.pc = "returned", !.ret = "errUnknownBlock"]
            ELSE IF SealPaused(config, txs)
            THEN [@ EXCEPT !.block = SealBlock(number, txs),
                           !.pc = "returned", !.ret = "nil",
                           !.log = @ \cup {"Sealing paused, waiting for transactions"}]
            ELSE [@ EXCEPT !.block = SealBlock(number, txs), !.pc = "rlock"]]
    /\ UNCHANGED << heap, statedb, finalized, call, config, contractVals, chain, recents, db, now, signer, signFn,
                    lock, auth, stop, timer, results, resultsCap, recvWaiting,
                    received, vh, prep >>

\* c.lock.RLock(); signer := c.signer
SealRLock(i) ==
    /\ seal[i].pc = "rlock"
    /\ RLockAvailable(lock)
    /\ lock' = [lock EXCEPT !.readers = @ \cup {i}]
    /\ seal' = [seal EXCEPT ![i].pc = "runlock", ![i].lsigner = signer]
    /\ UNCHANGED << heap, statedb, finalized, call, config, contractVals, chain, recents, db, now, signer, signFn,
                    auth, stop, timer, results, resultsCap, recvWaiting, received,
                    vh, prep >>

\* signFn := c.signFn; c.lock.RUnlock()
SealRUnlock(i) ==
    /\ seal[i].pc = "runlock"
    /\ lock' = [lock EXCEPT !.readers = @ \ {i}]
    /\ seal' = [seal EXCEPT ![i].pc = "check", ![i].lsignFn = signFn]
    /\ UNCHANGED << heap, statedb, finalized, call, config, contractVals, chain, recents, db, now, signer, signFn,
                    auth, stop, timer, results, resultsCap, recvWaiting, received,
                    vh, prep >>

\* Seal, lines 834-891: the snapshot, the authorization check, the succession
\* number, the signature, the start of the goroutine, return nil.  The sign
\* function may fail (signOk).
SealSign(i) ==
    /\ seal[i].pc = "check"
    /\ LET header == seal[i].block.header
       IN  \E s \in { snapshot(config, contractVals, chain, recents, db,
                                header.Number - 1, header.ParentHash, << >>) } :
           /\ recents' = s.recents
           /\ heap' = lookupIn(config, contractVals, chain, recents, db, heap,
                          header, << >>, s.recents)
           /\ db' = s.db
           /\ IF s.err # "nil"
              THEN seal' = [seal EXCEPT ![i].pc = "returned", ![i].ret = s.err]
              ELSE IF SealRefusal(s.snap, seal[i].lsigner) # "nil"
              THEN seal' = [seal EXCEPT ![i].pc = "returned",
                                        ![i].checked = seal[i].lsigner,
                                        ![i].ret = SealRefusal(s.snap, seal[i].lsigner)]
              ELSE IF seal[i].lsignFn = 0
              THEN seal' = [seal EXCEPT ![i].pc = "returned",
                                        ![i].checked = seal[i].lsigner,
                                        ![i].member = TRUE,
                                        ![i].ret = "panic: nil signFn"]
              ELSE \E signOk \in BOOLEAN :
                     seal' = [seal EXCEPT
                        ![i].pc = "returned",
                        ![i].member = TRUE,
                        ![i].checked = seal[i].lsigner,
                        ![i].signCalls = @ + 1,
                        ![i].signAccount = seal[i].lsigner,
                        ![i].signFnUsed = seal[i].lsignFn,
                        ![i].timerAtSign = timer[i],
                        ![i].ret = IF signOk THEN "nil" ELSE "signFn error",
                        ![i].block = IF signOk
                                     THEN [@ EXCEPT !.header =
                                             SignHeader(header, seal[i].lsigner)]
                                     ELSE @,
                        ![i].g = IF signOk THEN "spawned" ELSE "none"]
    /\ UNCHANGED << statedb, finalized, call, config, contractVals, chain, now, signer, signFn, lock, auth,
                    stop, timer, results, resultsCap, recvWaiting, received, vh, prep >>

\* the goroutine enters the first select: its channel operands are evaluated,
\* time.After(delay) starts the timer
GoEnter(i) ==
    /\ seal[i].g = "spawned"
    /\ timer' = [timer EXCEPT ![i] = "running"]
    /\ seal' = [seal EXCEPT ![i].g = "select"]
    /\ UNCHANGED << heap, statedb, finalized, call, config, contractVals, chain, recents, db, now, signer, signFn,
                    lock, auth, stop, results, resultsCap, recvWaiting, received,
                    vh, prep >>

\* the delay expires: the timer's channel becomes ready
TimerFire(i) ==
    /\ timer[i] = "running"
    /\ timer' = [timer EXCEPT ![i] = "fired"]
    /\ UNCHANGED << heap, statedb, finalized, call, config, contractVals, chain, recents, db, now, signer, signFn,
                    lock, auth, seal, stop, results, resultsCap, recvWaiting,
                    received, vh, prep >>

\* the caller of Seal closes the stop channel
Stop(i) ==
    /\ ~stop[i]
    /\ seal[i].pc # "idle"
    /\ stop' = [stop EXCEPT ![i] = TRUE]
    /\ seal' = [seal EXCEPT ![i].stopEarly = (timer[i] # "fired")]
    /\ UNCHANGED << heap, statedb, finalized, call, config, contractVals, chain, recents, db, now, signer, signFn,
                    lock, auth, timer, results, resultsCap, recvWaiting, received,
                    vh, prep >>

\* first select, case <-stop: the sealing operation is discarded
GoSelectStop(i) ==
    /\ seal[i].g = "select"
    /\ stop[i]
    /\ seal' = [seal EXCEPT ![i].g = "done", ![i].stopAtSelect = TRUE]
    /\ UNCHANGED << heap, statedb, finalized, call, config, contractVals, chain, recents, db, now, signer, signFn,
                    lock, auth, stop, timer, results, resultsCap, recvWaiting,
                    received, vh, prep >>

\* first select, case <-time.After(delay)
GoSelectTimer(i) ==
    /\ seal[i].g = "select"
    /\ timer[i] = "fired"
    /\ seal' = [seal EXCEPT ![i].g = "emit"]
    /\ UNCHANGED << heap, statedb, finalized, call, config, contractVals, chain, recents, db, now, signer, signFn,
                    lock, auth, stop, timer, results, resultsCap, recvWaiting,
                    received, vh, prep >>

SealedBlock(i) == [call |-> i, header |-> seal[i].block.header]

\* second select, case results <- block.WithSeal(header)
GoDeliver(i) ==
    /\ seal[i].g = "emit"
    /\ CanSend(results, resultsCap, recvWaiting)
    /\ IF recvWaiting
       THEN /\ received' = Append(received, SealedBlock(i))
            /\ recvWaiting' = FALSE
            /\ UNCHANGED results
       ELSE /\ results' = Append(results, SealedBlock(i))
            /\ UNCHANGED << heap, received, recvWaiting >>
    /\ seal' = [seal EXCEPT ![i].g = "done", ![i].delivered = @ + 1]
    /\ UNCHANGED << heap, statedb, finalized, call, config, contractVals, chain, recents, db, now, signer, signFn,
                    lock, auth, stop, timer, resultsCap, vh, prep >>

\* second select, default: the block is dropped with a warning
GoDrop(i) ==
    /\ seal[i].g = "emit"
    /\ ~CanSend(results, resultsCap, recvWaiting)
    /\ seal' = [seal EXCEPT ![i].g = AfterDefault, ![i].dropped = TRUE,
                            ![i].log = @ \cup {"Sealing result was not read by miner"}]
    /\ UNCHANGED << heap, statedb, finalized, call, config, contractVals, chain, recents, db, now, signer, signFn,
                    lock, auth, stop, timer, results, resultsCap, recvWaiting,
                    received, vh, prep >>

\* the miner starts to wait on the results channel, or takes a buffered block
Receive ==
    /\ ~recvWaiting
    /\ IF results = << >>
       THEN /\ recvWaiting' = TRUE
            /\ UNCHANGED << heap, results, received >>
       ELSE /\ received' = Append(received, Head(results))
            /\ results' = Tail(results)
            /\ UNCHANGED recvWaiting
    /\ UNCHANGED << heap, statedb, finalized, call, config, contractVals, chain, recents, db, now, signer, signFn,
                    lock, auth, seal, stop, timer, resultsCap, vh, prep >>

\* the miner stops waiting (its select took another case)
ReceiveLeave ==
    /\ recvWaiting
    /\ recvWaiting' = FALSE
    /\ UNCHANGED << heap, statedb, finalized, call, config, contractVals, chain, recents, db, now, signer, signFn,
                    lock, auth, seal, stop, timer, results, resultsCap, received,
                    vh, prep >>

-----------------------------------------------------------------------------
(* Bor.Prepare, and the way of a produced header through FinalizeAndAssemble, *)
(* Seal and verification                                                      *)

\* a vanity that is padded but never cut
VanityNotTruncated(extra) ==
    extra \o Zeros(extraVanity - Min(extraVanity, Len(extra)))

\* lines 642-646: the vanity is padded with zeros or truncated to extraVanity
PrepareVanity(extra) ==
    SubSeq(extra \o Zeros(extraVanity - Min(extraVanity, Len(extra))), 1, extraVanity)

\* a timestamp that takes no account of the clock
PrepareTimeWithoutNow(parentTime, delay, t) == parentTime + delay

\* lines 683-686: the parent's time plus the producer delay, but not before now
PrepareTime(parentTime, delay, t) == Max(parentTime + delay, t)

\* a Prepare that writes the validator bytes into the first header of a
\* sprint instead of the last
PrepareFieldsAtSprintStart(c, cv, header, snap, sgnD) ==
    [header EXCEPT
       !.Difficulty = Difficulty(snap, sgnD),
       !.Extra = PrepareVanity(header.Extra)
                 \o (IF header.Number % c.Sprint = 0
                     THEN ValidatorsBytes(SortByAddress(
                              GetCurrentValidators(cv, header.Number + 1)))
                     ELSE << >>)
                 \o Zeros(extraSeal),
       !.MixDigest = 0]

\* Bor.Prepare at time t; sgnD is c.signer as read for the difficulty (line
\* 640), sgnS as read for the succession number (lines 676-677).  Coinbase and
\* Nonce, which Prepare zeroes, are not part of the model's headers.
\* lines 639-666: difficulty, extra-data and mix digest
PrepareFields(c, cv, header, snap, sgnD) ==
    [header EXCEPT
       !.Difficulty = Difficulty(snap, sgnD),
       !.Extra = PrepareVanity(header.Extra)
                 \o (IF (header.Number + 1) % c.Sprint = 0
                     THEN ValidatorsBytes(SortByAddress(
                              GetCurrentValidators(cv, header.Number + 1)))
                     ELSE << >>)
                 \o Zeros(extraSeal),
       !.MixDigest = 0]

\* lines 668-687: the timestamp
PrepareTimestamp(c, t, h, parent, succ) ==
    IF parent = << >> THEN [err |-> "ErrUnknownAncestor", header |-> h]
    ELSE IF succ.err # "nil" THEN [err |-> succ.err, header |-> h]
    ELSE [err |-> "nil",
          header |-> [h EXCEPT !.Time =
                        PrepareTime(parent[1].Time,
                                    CalcProducerDelay(h.Number, succ.n, c), t)]]

PrepareWith(c, cv, ch, t, sgnD, sgnS, header, s) ==
    IF s.err # "nil"
    THEN [err |-> s.err, header |-> header, recents |-> s.recents, db |-> s.db]
    ELSE [recents |-> s.recents, db |-> s.db]
         @@ PrepareTimestamp(c, t, PrepareFields(c, cv, header, s.snap, sgnD),
                             GetHeader(ch, header.ParentHash, header.Number - 1),
                             IF sgnS # ZeroAddress
                             THEN GetSignerSuccessionNumber(s.snap, sgnS)
                             ELSE [err |-> "nil", n |-> 0])

Prepare(c, cv, ch, rec, store, t, sgnD, sgnS, header) ==
    PrepareWith(c, cv, ch, t, sgnD, sgnS, header,
                snapshot(c, cv, ch, rec, store, header.Number - 1,
                         header.ParentHash, << >>))

\* FinalizeAndAssemble, line 792: header.UncleHash = types.CalcUncleHash(nil)
AssembleHeader(header) == [header EXCEPT !.UncleHash = uncleHash]

\* the oldest header the chain reader holds (the genesis, or the first
\* header after the ones that were pruned)
Base(ch) == CHOOSE h \in ch : \A g \in ch : h.Number <= g.Number

\* the canonical head
Tip(ch) == CHOOSE h \in ch : \A g \in ch : g.Number <= h.Number

\* the header the miner hands to Prepare: on top of the head, with some
\* extra-data of its own
FreshHeader(ch, extra) ==
    [Number |-> Tip(ch).Number + 1, Time |-> 0, ParentHash |-> Hash(Tip(ch)),
     Difficulty |-> -1, Extra |-> extra, MixDigest |-> 1, UncleHash |-> "unset"]

\* shorter than the vanity, as long, and longer
VanityInputs == { [i \in 1..(extraVanity - 8) |-> 7], [i \in 1..extraVanity |-> 7],
                  [i \in 1..(extraVanity + 8) |-> 7] }

IdlePrep == [pc |-> "idle", header |-> Genesis, err |-> "nil", verdict |-> "none",
             preparedAt |-> 0, extra |-> << >>]

PrepPrepare ==
    /\ prep.pc = "idle"
    /\ Tip(chain).Number < MaxChain
    /\ \E extra \in VanityInputs :
         \E r \in { Prepare(config, contractVals, chain, recents, db, now, signer,
                             signer, FreshHeader(chain, extra)) } :
             /\ prep' = [pc |-> IF r.err = "nil" THEN "prepared" ELSE "failed",
                         header |-> r.header, err |-> r.err, verdict |-> "none",
                         preparedAt |-> now, extra |-> extra]
             /\ recents' = r.recents
             /\ heap' = lookupIn(config, contractVals, chain, recents, db, heap,
                            FreshHeader(chain, extra), << >>, r.recents)
             /\ db' = r.db
    /\ UNCHANGED << statedb, finalized, call, config, contractVals, chain, now, signer, signFn, lock, auth,
                    seal, stop, timer, results, resultsCap, recvWaiting, received, vh >>

PrepAssemble ==
    /\ prep.pc = "prepared"
    /\ prep' = [prep EXCEPT !.pc = "assembled", !.header = AssembleHeader(@),
                            !.extra = << >>]
    /\ UNCHANGED << heap, statedb, finalized, call, config, contractVals, chain, recents, db, now, signer, signFn,
                    lock, auth, seal, stop, timer, results, resultsCap, recvWaiting,
                    received, vh >>

\* Seal by the configured signer: refused when it is not in the validator set
\* of the parent snapshot, else the header is signed
PrepSeal ==
    /\ prep.pc = "assembled"
    /\ \E s \in { snapshot(config, contractVals, chain, recents, db,
                            prep.header.Number - 1, prep.header.ParentHash, << >>) } :
           /\ recents' = s.recents
           /\ heap' = lookupIn(config, contractVals, chain, recents, db, heap,
                          prep.header, << >>, s.recents)
           /\ db' = s.db
           /\ IF s.err = "nil" /\ Authorized(s.snap, signer)
              THEN prep' = [prep EXCEPT !.pc = "sealed",
                                        !.header = SignHeader(@, signer)]
              ELSE prep' = [prep EXCEPT !.pc = "failed",
                                        !.err = "UnauthorizedSignerError"]
    /\ UNCHANGED << statedb, finalized, call, config, contractVals, chain, now, signer, signFn, lock, auth,
                    seal, stop, timer, results, resultsCap, recvWaiting, received, vh >>

\* VerifyHeader of the sealed header
PrepVerify ==
    /\ prep.pc = "sealed"
    /\ \E r \in { verifyHeader(config, contractVals, chain, recents, db, now,
                                prep.header, << >>) } :
           /\ prep' = [prep EXCEPT !.pc = "verified", !.verdict = r.err]
           /\ recents' = r.recents
           /\ heap' = verifyHeaderIn(config, contractVals, chain, recents, db, heap,
                          prep.header, << >>, r)
           /\ db' = r.db
    /\ UNCHANGED << statedb, finalized, call, config, contractVals, chain, now, signer, signFn, lock, auth,
                    seal, stop, timer, results, resultsCap, recvWaiting, received, vh >>

\* an accepted header joins the chain
PrepImport ==
    /\ prep.pc = "verified"
    /\ prep.verdict = "nil"
    /\ chain' = chain \cup { prep.header }
    /\ prep' = IdlePrep
    /\ UNCHANGED << heap, statedb, finalized, call, config, contractVals, recents, db, now, signer, signFn, lock,
                    auth, seal, stop, timer, results, resultsCap, recvWaiting,
                    received, vh >>

\* a refused or rejected header is given up
PrepDiscard ==
    /\ \/ prep.pc = "failed"
       \/ prep.pc = "verified" /\ prep.verdict # "nil"
    /\ prep' = IdlePrep
    /\ UNCHANGED << heap, statedb, finalized, call, config, contractVals, chain, recents, db, now, signer, signFn,
                    lock, auth, seal, stop, timer, results, resultsCap, recvWaiting,
                    received, vh >>

\* a second passes
Tick ==
    /\ now < GenesisTime + MaxNow
    /\ now' = now + 1
    /\ UNCHANGED << heap, statedb, finalized, call, config, contractVals, chain, recents, db, signer, signFn, lock,
                    auth, seal, stop, timer, results, resultsCap, recvWaiting,
                    received, vh, prep >>

-----------------------------------------------------------------------------
(* Single calls of VerifyHeader and VerifySeal on headers of many kinds *)

\* What a header's validator region holds: the contract's validators for the
\* next block in address order ("sorted", what Prepare writes on a sprint-end
\* header), as the contract lists them, in descending order, one validator
\* short, one voting power changed, one validator more, one byte more, or
\* nothing ("none", what Prepare writes on every other header)
RegionBytes(c, cv, number, kind) ==
    LET sorted == SortByAddress(GetCurrentValidators(cv, number + 1))
        proper == IF (number + 1) % c.Sprint = 0 THEN "sorted" ELSE "none"
        k      == IF kind = "proper" THEN proper ELSE kind
    IN  CASE k = "none"       -> << >>
          [] k = "sorted"     -> ValidatorsBytes(sorted)
          [] k = "asReported" -> ValidatorsBytes(GetCurrentValidators(cv, number + 1))
          [] k = "reversed"   -> ValidatorsBytes(Reverse(sorted))
          [] k = "short"      -> ValidatorsBytes(Tail(sorted))
          [] k = "power"      -> ValidatorsBytes(
                                   [sorted EXCEPT ![1].VotingPower = @ + 1])
          [] k = "long"       -> ValidatorsBytes(
                                   Append(sorted, Validator(NumAddrs, 1)))
          [] k = "ragged"     -> ValidatorsBytes(sorted) \o << 0 >>

\* The kinds of headers handed to verification: who signed, how long after the
\* parent, with which difficulty, with which validator region, and which hash
\* the parent hash is: that of the header it was built on ("parent"), of the
\* chain's header of that number ("chain") or none
HeaderKinds ==
    [ account : Addrs, dt : {2, 3, 4}, difficulty : {1, 2},
      region : {"proper"}, link : {"parent"} ]
    \cup
    [ account : {1, 2}, dt : {4}, difficulty : {1, 2},
      region : { "none", "sorted", "asReported", "reversed", "short", "power",
                 "long", "ragged" },
      link : {"parent"} ]
    \cup
    [ account : {1, 2}, dt : {4}, difficulty : {1, 2},
      region : {"proper", "none"}, link : {"chain", "none"} ]

\* the kinds of the headers of a parents batch (a snapshot takes a header's
\* signer and validator region, never its difficulty)
ParentKinds ==
    [ account : {1, 2}, dt : {4}, difficulty : {1},
      region : {"proper", "reversed", "short"}, link : {"parent"} ]

\* the header of kind k built on prev, while the chain is ch
KindHeader(c, cv, prev, ch, k) ==
    MkHeader(prev.Number + 1, prev.Time + k.dt,
             CASE k.link = "parent" -> Hash(prev)
               [] k.link = "chain"  ->
                    IF GetHeaderByNumber(ch, prev.Number) = << >> THEN ZeroHash
                    ELSE Hash(GetHeaderByNumber(ch, prev.Number)[1])
               [] k.link = "none"   -> ZeroHash,
             k.difficulty,
             RegionBytes(c, cv, prev.Number + 1, k.region),
             k.account)

\* the headers the chain grows by: the in-turn and the out-of-turn block
ImportKinds ==
    { [account |-> 1, dt |-> 2, difficulty |-> 2, region |-> "proper", link |-> "parent"],
      [account |-> 2, dt |-> 2, difficulty |-> 2, region |-> "proper", link |-> "parent"],
      [account |-> 1, dt |-> 4, difficulty |-> 1, region |-> "proper", link |-> "parent"],
      [account |-> 2, dt |-> 4, difficulty |-> 1, region |-> "proper", link |-> "parent"] }

\* The inputs of a call: a header on the chain's head without parents batch,
\* or a parents batch of one header built on a header of the chain and a
\* header built on that one, or a parents batch of two headers, the second
\* naming the first or the chain's header of that number as its parent, and a
\* header built on the second (no header beyond the blocks the contract is asked about)
CallInputs(c, cv, ch) ==
    { [header |-> KindHeader(c, cv, Tip(ch), ch, k), parents |-> << >>] :
        k \in HeaderKinds }
    \cup
    { [header  |-> KindHeader(c, cv, KindHeader(c, cv, on, ch, pk), ch, k),
       parents |-> << KindHeader(c, cv, on, ch, pk) >>] :
        on \in { h \in ch : h.Number < MaxChain }, pk \in ParentKinds,
        k \in HeaderKinds }
    \cup
    { [header  |-> KindHeader(c, cv,
                     KindHeader(c, cv, KindHeader(c, cv, on, ch, pk1), ch, pk2),
                     ch, k),
       parents |-> << KindHeader(c, cv, on, ch, pk1),
                      KindHeader(c, cv, KindHeader(c, cv, on, ch, pk1), ch, pk2) >>] :
        on \in { h \in ch : h.Number < MaxChain - 1 },
        pk1 \in ParentKinds,
        pk2 \in { [pk EXCEPT !.link = l] : pk \in ParentKinds, l \in {"parent", "chain"} },
        k \in ImportKinds }

\* VerifyHeader(chain, header) / verifyHeader(chain, header, parents)
CallVerifyHeader ==
    /\ call.op = "none"
    /\ \E in \in CallInputs(config, contractVals, chain) :
         \E r \in { verifyHeader(config, contractVals, chain, recents, db, now,
                                  in.header, in.parents) } :
             /\ call' = [op |-> "verifyHeader", header |-> in.header,
                         parents |-> in.parents, out |-> r.err,
                         recents |-> recents, db |-> db]
             /\ recents' = r.recents
             /\ heap' = verifyHeaderIn(config, contractVals, chain, recents, db, heap,
                            in.header, in.parents, r)
             /\ db' = r.db
    /\ UNCHANGED << statedb, finalized, config, contractVals, chain, now, signer, signFn, lock, auth,
                    seal, stop, timer, results, resultsCap, recvWaiting, received,
                    vh, prep >>

\* VerifySeal(chain, header) / verifySeal(chain, header, parents)
CallVerifySeal ==
    /\ call.op = "none"
    /\ \E in \in CallInputs(config, contractVals, chain) :
         \E r \in { verifySeal(config, contractVals, chain, recents, db,
                                in.header, in.parents) } :
             /\ call' = [op |-> "verifySeal", header |-> in.header,
                         parents |-> in.parents, out |-> r.err,
                         recents |-> recents, db |-> db]
             /\ recents' = r.recents
             /\ heap' = lookupIn(config, contractVals, chain, recents, db, heap,
                            in.header, in.parents, r.recents)
             /\ db' = r.db
    /\ UNCHANGED << statedb, finalized, config, contractVals, chain, now, signer, signFn, lock, auth,
                    seal, stop, timer, results, resultsCap, recvWaiting, received,
                    vh, prep >>

\* Prepare(chain, header) of a fresh header on the chain's head
CallPrepare ==
    /\ call.op = "none"
    /\ \E r \in { Prepare(config, contractVals, chain, recents, db, now, signer,
                           signer, FreshHeader(chain, << >>)) } :
           /\ call' = [op |-> "Prepare", header |-> r.header, parents |-> << >>,
                       out |-> r.err, recents |-> recents, db |-> db]
           /\ recents' = r.recents
           /\ heap' = lookupIn(config, contractVals, chain, recents, db, heap,
                          FreshHeader(chain, << >>), << >>, r.recents)
           /\ db' = r.db
    /\ UNCHANGED << statedb, finalized, config, contractVals, chain, now, signer, signFn, lock, auth,
                    seal, stop, timer, results, resultsCap, recvWaiting, received,
                    vh, prep >>

\* the chain imports a header that VerifyHeader accepts
ChainInsert ==
    /\ call.op = "none"
    /\ Tip(chain).Number < Base(chain).Number + MaxChain
    /\ \E k \in ImportKinds :
         LET h == KindHeader(config, contractVals, Tip(chain), chain, k)
         IN  \E r \in { verifyHeader(config, contractVals, chain, recents, db, now,
                                      h, << >>) } :
             /\ r.err = "nil"
             /\ chain' = chain \cup { h }
             /\ recents' = r.recents
             /\ heap' = verifyHeaderIn(config, contractVals, chain, recents, db, heap,
                            h, << >>, r)
             /\ db' = r.db
    /\ UNCHANGED << statedb, finalized, call, config, contractVals, now, signer, signFn, lock, auth,
                    seal, stop, timer, results, resultsCap, recvWaiting, received,
                    vh, prep >>

-----------------------------------------------------------------------------
(* State sync: CommitStates *)

\* c.chainConfig.ChainID.String()
ChainID == "chainID"

\* validateEventRecord
validateEventRecord(eventRecord, to, lastStateID, chainID) ==
    IF \/ lastStateID + 1 # eventRecord.ID
       \/ eventRecord.ChainID # chainID
       \/ ~(eventRecord.Time < to)
    THEN "InvalidStateReceivedError"
    ELSE "nil"

\* lines 1233-1239: c.config.OverrideStateSyncRecords[number], -1 when the
\* block has no entry
OverrideRecords(eventRecords, val) ==
    IF val >= 0 /\ val < Len(eventRecords)
    THEN SubSeq(eventRecords, 1, val)
    ELSE eventRecords

\* a loop that goes on to the next record after one that fails validation
RECURSIVE CommitLoopPastInvalid(_, _, _, _, _)
CommitLoopPastInvalid(eventRecords, to, lastStateID, chainID, stateSyncs) ==
    IF eventRecords = << >>
    THEN [err |-> "nil", stateSyncs |-> stateSyncs, lastStateID |-> lastStateID]
    ELSE IF Head(eventRecords).ID <= lastStateID
    THEN CommitLoopPastInvalid(Tail(eventRecords), to, lastStateID, chainID, stateSyncs)
    ELSE IF validateEventRecord(Head(eventRecords), to, lastStateID, chainID) # "nil"
    THEN CommitLoopPastInvalid(Tail(eventRecords), to, lastStateID, chainID, stateSyncs)
    ELSE IF Head(eventRecords).commit # "nil"
    THEN [err |-> Head(eventRecords).commit, stateSyncs |-> << >>,
          lastStateID |-> lastStateID]
    ELSE CommitLoopPastInvalid(Tail(eventRecords), to, lastStateID + 1, chainID,
                               Append(stateSyncs, Head(eventRecords).ID))

\* CommitStates, lines 1242-1264: the loop over the event records.  A record's
\* field commit is what GenesisContractsClient.CommitState answers for it; on
\* an error CommitStates returns (nil, err).
RECURSIVE CommitLoop(_, _, _, _, _)
CommitLoop(eventRecords, to, lastStateID, chainID, stateSyncs) ==
    IF eventRecords = << >>
    THEN [err |-> "nil", stateSyncs |-> stateSyncs, lastStateID |-> lastStateID]
    ELSE IF Head(eventRecords).ID <= lastStateID
    THEN CommitLoop(Tail(eventRecords), to, lastStateID, chainID, stateSyncs)
    ELSE IF validateEventRecord(Head(eventRecords), to, lastStateID, chainID) # "nil"
    THEN [err |-> "nil", stateSyncs |-> stateSyncs, lastStateID |-> lastStateID]
    ELSE IF Head(eventRecords).commit # "nil"
    THEN [err |-> Head(eventRecords).commit, stateSyncs |-> << >>,
          lastStateID |-> lastStateID]
    ELSE CommitLoop(Tail(eventRecords), to, lastStateID + 1, chainID,
                    Append(stateSyncs, Head(eventRecords).ID))

\* Bor.CommitStates: lastStateID is the state receiver's LastStateId at the
\* parent, fetched what FetchStateSyncEvents answers ([err, records]), to the
\* time of the block one sprint back
CommitStates(lastStateID, fetched, override, to) ==
    IF fetched.err # "nil"
    THEN [err |-> fetched.err, stateSyncs |-> << >>, lastStateID |-> lastStateID]
    ELSE CommitLoop(OverrideRecords(fetched.records, override), to, lastStateID,
                    ChainID, << >>)

MaxEvents == 3

\* The event records Heimdall may answer with: identifiers from the last
\* committed one on, each record in order or with one flaw (another chain's
\* identifier, a time not before the window's end, a commit that fails)
EventRecords(lastStateID, to) ==
    { [ID |-> id, ChainID |-> IF flaw = "chain" THEN "other" ELSE ChainID,
       Time |-> IF flaw = "late" THEN to ELSE to - 1,
       commit |-> IF flaw = "commit" THEN "CommitState failed" ELSE "nil"] :
        id \in lastStateID..(lastStateID + 4),
        flaw \in { "none", "chain", "late", "commit" } }

RECURSIVE SeqsUpTo(_, _)
SeqsUpTo(S, n) ==
    IF n = 0 THEN { << >> }
    ELSE SeqsUpTo(S, n - 1)
         \cup { Append(q, x) : q \in { r \in SeqsUpTo(S, n - 1) : Len(r) = n - 1 },
                               x \in S }

\* CommitStates(state, header, chain) for the header of block c.config.Sprint
CallCommitStates ==
    /\ call.op = "none"
    /\ LET number == config.Sprint
           to     == GetHeaderByNumber(chain, number - config.Sprint)[1].Time
       IN  \E records \in SeqsUpTo(EventRecords(statedb.lastStateID, to), MaxEvents),
              override \in { -1, 1 } :
             LET r == CommitStates(statedb.lastStateID,
                                   [err |-> "nil", records |-> records], override, to)
             IN  /\ call' = [op |-> "CommitStates", records |-> records,
                             override |-> override, to |-> to,
                             lastStateID |-> statedb.lastStateID, out |-> r]
                 /\ statedb' = [statedb EXCEPT !.lastStateID = r.lastStateID]
    /\ UNCHANGED << heap, finalized, config, contractVals, chain, recents, db, now, signer,
                    signFn, lock, auth, seal, stop, timer, results, resultsCap,
                    recvWaiting, received, vh, prep >>

\* FetchStateSyncEvents fails
CallCommitStatesNoEvents ==
    /\ call.op = "none"
    /\ LET number == config.Sprint
           to     == GetHeaderByNumber(chain, number - config.Sprint)[1].Time
           r      == CommitStates(statedb.lastStateID,
                              [err |-> "fetch failed", records |-> << >>], -1, to)
       IN  /\ call' = [op |-> "CommitStates", records |-> << >>,
                       override |-> -1, to |-> to,
                       lastStateID |-> statedb.lastStateID, out |-> r]
           /\ statedb' = [statedb EXCEPT !.lastStateID = r.lastStateID]
    /\ UNCHANGED << heap, finalized, config, contractVals, chain, recents, db, now, signer,
                    signFn, lock, auth, seal, stop, timer, results, resultsCap,
                    recvWaiting, received, vh, prep >>

-----------------------------------------------------------------------------
(* Span commit, Finalize and FinalizeAndAssemble *)

\* GetCurrentSpan(headerHash): the validator contract's span at the parent
\* block, of the spans committed so far (<< >> is a nil span)
GetCurrentSpan(spans, parentNumber) ==
    IF spans = << >> THEN << >>
    ELSE LET begun == { i \in 1..Len(spans) : spans[i].StartBlock <= parentNumber }
         IN  IF begun = { } THEN << spans[1] >>
             ELSE << spans[CHOOSE i \in begun : \A j \in begun : j <= i] >>

\* a decision that holds from the first block of the span's last sprint on
needToCommitSpanFromThenOn(c, span, headerNumber) ==
    IF span = << >> THEN FALSE
    ELSE IF span[1].EndBlock = 0 THEN TRUE
    ELSE /\ span[1].EndBlock > c.Sprint
         /\ span[1].EndBlock - c.Sprint + 1 <= headerNumber

\* a decision that does not ask the span to be longer than a sprint
needToCommitSpanAnyLength(c, span, headerNumber) ==
    IF span = << >> THEN FALSE
    ELSE IF span[1].EndBlock = 0 THEN TRUE
    ELSE span[1].EndBlock - c.Sprint + 1 = headerNumber

\* needToCommitSpan
needToCommitSpan(c, span, headerNumber) ==
    IF span = << >> THEN FALSE
    ELSE IF span[1].EndBlock = 0 THEN TRUE
    ELSE /\ span[1].EndBlock > c.Sprint
         /\ span[1].EndBlock - c.Sprint + 1 = headerNumber

\* the span Heimdall holds after span: the next identifier, the blocks after
\* the span's end, as many as the span has (two sprints after an unset span)
NextSpan(c, span) ==
    [ID |-> span.ID + 1, StartBlock |-> span.EndBlock + 1,
     EndBlock |-> span.EndBlock + (IF span.EndBlock = 0 THEN 2 * c.Sprint
                                   ELSE span.EndBlock - span.StartBlock + 1)]

\* What Heimdall holds under bor/span/{newSpanID}: a span the contract was
\* given already, or the one after the span with the identifier before
HeimdallSpan(c, spans, newSpanID) ==
    LET held == { i \in 1..Len(spans) : spans[i].ID = newSpanID }
        prev == { i \in 1..Len(spans) : spans[i].ID + 1 = newSpanID }
    IN  IF held # { } THEN spans[CHOOSE i \in held : TRUE]
        ELSE IF prev # { } THEN NextSpan(c, spans[CHOOSE i \in prev : TRUE])
        ELSE [ID |-> newSpanID, StartBlock |-> 0, EndBlock |-> 0]

\* an applyMessage that hands the EVM's error to its caller
applyMessageReporting(evmErr, before, after) ==
    [err |-> evmErr, spans |-> IF evmErr = "nil" THEN after ELSE before,
     finalised |-> evmErr # "nil"]

\* applyMessage: the EVM call changes the state (before -> after) or fails
\* with evmErr and leaves it as it was; on a failure state.Finalise(true) is
\* called; nil is returned in both cases
applyMessage(evmErr, before, after) ==
    [err |-> "nil", spans |-> IF evmErr = "nil" THEN after ELSE before,
     finalised |-> evmErr # "nil"]

\* a fetchAndCommitSpan that commits the span of any chain
fetchAndCommitSpanAnyChain(c, spans, newSpanID, heimdall) ==
    [requested |-> << newSpanID >>]
    @@ IF heimdall.err # "nil"
       THEN [err |-> heimdall.err, spans |-> spans, messages |-> 0,
             finalised |-> FALSE]
       ELSE [messages |-> 1]
            @@ applyMessage(heimdall.evm, spans,
                            Append(spans, HeimdallSpan(c, spans, newSpanID)))

\* fetchAndCommitSpan: heimdall is how Heimdall and the EVM answer: [err,
\* ChainID, evm]; requested are the span identifiers asked of Heimdall,
\* messages the number of system messages executed
fetchAndCommitSpan(c, spans, newSpanID, heimdall) ==
    [requested |-> << newSpanID >>]
    @@ IF heimdall.err # "nil"
       THEN [err |-> heimdall.err, spans |-> spans, messages |-> 0,
             finalised |-> FALSE]
       ELSE IF heimdall.ChainID # ChainID
       THEN [err |-> "Chain id proposed span and bor chain id doesn't match",
             spans |-> spans, messages |-> 0, finalised |-> FALSE]
       ELSE [messages |-> 1]
            @@ applyMessage(heimdall.evm, spans,
                            Append(spans, HeimdallSpan(c, spans, newSpanID)))

\* checkAndCommitSpan; current is what GetCurrentSpan answered ([err, span])
checkAndCommitSpan(c, spans, current, headerNumber, heimdallSpan) ==
    IF current.err # "nil"
    THEN [err |-> current.err, spans |-> spans, triggered |-> FALSE,
          requested |-> << >>, messages |-> 0, finalised |-> FALSE]
    ELSE IF needToCommitSpan(c, current.span, headerNumber)
    THEN [triggered |-> TRUE]
         @@ fetchAndCommitSpan(c, spans, current.span[1].ID + 1, heimdallSpan)
    ELSE [err |-> "nil", spans |-> spans, triggered |-> FALSE,
          requested |-> << >>, messages |-> 0, finalised |-> FALSE]

\* Finalize, lines 693-715, and FinalizeAndAssemble, lines 761-784: the work at
\* a sprint boundary, up to the first error.  (WithoutHeimdall is off;
\* changeContractCodeIfNeeded finds no BlockAlloc and returns nil.)
\* a sprint boundary where CommitStates runs whatever checkAndCommitSpan
\* returned
SprintWorkGoingOn(st, cs, sync) ==
    [triggered |-> cs.triggered, requested |-> cs.requested,
     messages |-> cs.messages, finalised |-> cs.finalised,
     err |-> IF cs.err # "nil" THEN cs.err ELSE sync.err,
     stateSyncs |-> sync.stateSyncs,
     statedb |-> [spans |-> cs.spans, lastStateID |-> sync.lastStateID],
     steps |-> << "checkAndCommitSpan", "CommitStates" >>]

SprintWorkStates(st, cs, sync) ==
    [triggered |-> cs.triggered, requested |-> cs.requested,
     messages |-> cs.messages, finalised |-> cs.finalised]
    @@ IF cs.err # "nil"
       THEN [err |-> cs.err, stateSyncs |-> << >>, statedb |-> st,
             steps |-> << "checkAndCommitSpan" >>]
       ELSE [err |-> sync.err, stateSyncs |-> sync.stateSyncs,
             statedb |-> [spans |-> cs.spans, lastStateID |-> sync.lastStateID],
             steps |-> << "checkAndCommitSpan", "CommitStates" >>]

SprintWork(c, st, headerNumber, in) ==
    IF headerNumber % c.Sprint # 0
    THEN [err |-> "nil", triggered |-> FALSE, stateSyncs |-> << >>, statedb |-> st,
          requested |-> << >>, messages |-> 0, finalised |-> FALSE,
          steps |-> << >>]
    ELSE SprintWorkStates(st,
             checkAndCommitSpan(c, st.spans, in.current, headerNumber, in.heimdallSpan),
             CommitStates(st.lastStateID, in.events, -1, in.to))

\* c.config.BlockAlloc: the blocks that have a contract-code entry, here the
\* first sprint boundary and the block after it.  New panics on an entry that
\* decodeGenesisAlloc rejects, so every entry of a constructed engine decodes.
BlockAlloc(c) == [n \in { c.Sprint, c.Sprint + 1 } |-> [decodes |-> TRUE]]

decodeGenesisAlloc(i) ==
    IF i.decodes THEN "nil" ELSE "json: cannot unmarshal"

\* Bor.changeContractCodeIfNeeded: the entry of the block, if there is one, is
\* decoded and its code set; a decoding error returns before any SetCode
changeContractCodeIfNeeded(c, headerNumber) ==
    IF headerNumber \notin DOMAIN BlockAlloc(c)
    THEN [err |-> "nil", codeSet |-> FALSE]
    ELSE IF decodeGenesisAlloc(BlockAlloc(c)[headerNumber]) # "nil"
    THEN [err |-> "failed to decode genesis alloc", codeSet |-> FALSE]
    ELSE [err |-> "nil", codeSet |-> TRUE]

\* what follows the sprint work in Finalize and FinalizeAndAssemble: the code
\* override, then header.Root, header.UncleHash and bc.SetStateSync; steps
\* lists the calls made, in order
AfterSprintWork(c, w, headerNumber) ==
    LET cc  == changeContractCodeIfNeeded(c, headerNumber)
        err == IF w.err # "nil" THEN w.err ELSE cc.err
    IN  [err      |-> err,
         log      |-> IF err = "nil" THEN {} ELSE { err },
         rootSet  |-> err = "nil",
         uncleSet |-> err = "nil",
         codeSet  |-> w.err = "nil" /\ cc.codeSet,
         stateSyncs |-> IF err = "nil" THEN w.stateSyncs ELSE << >>,
         steps    |-> w.steps
                      \o (IF w.err = "nil"
                          THEN << "changeContractCodeIfNeeded" >> ELSE << >>)
                      \o (IF err = "nil"
                          THEN << "IntermediateRoot", "CalcUncleHash",
                                  "SetStateSync" >>
                          ELSE << >>),
         triggered |-> w.triggered, statedb |-> w.statedb,
         requested |-> w.requested, messages |-> w.messages,
         finalised |-> w.finalised]

\* Bor.Finalize: it returns nothing; on an error it logs and returns before
\* header.Root, header.UncleHash and the state sync data are set
Finalize(c, st, headerNumber, in) ==
    [returned |-> "nothing"]
    @@ AfterSprintWork(c, SprintWork(c, st, headerNumber, in), headerNumber)

\* a FinalizeAndAssemble that logs the error and goes on to assemble the block
FinalizeAndAssembleSwallowing(c, st, headerNumber, in) ==
    LET w == SprintWork(c, st, headerNumber, in)
        a == AfterSprintWork(c, w, headerNumber)
    IN  [returned |-> [block |-> << headerNumber >>, err |-> "nil"],
         rootSet  |-> TRUE,
         stateSyncs |-> w.stateSyncs]
        @@ a

\* Bor.FinalizeAndAssemble: (block, nil), or (nil, err) on an error
FinalizeAndAssemble(c, st, headerNumber, in) ==
    LET a == AfterSprintWork(c, SprintWork(c, st, headerNumber, in), headerNumber)
    IN  [returned |-> IF a.err = "nil"
                      THEN [block |-> << headerNumber >>, err |-> "nil"]
                      ELSE [block |-> << >>, err |-> a.err]]
        @@ a

\* What the contracts and Heimdall answer while block headerNumber is
\* finalized: GetCurrentSpan answers or fails; Heimdall, asked for a span,
\* answers with it (and the EVM executes commitSpan or fails), fails, or
\* answers with a span of another chain; asked
\* for the state-sync events it fails or answers with one event, in order or
\* of another chain.  Nothing is asked off a sprint boundary.
FinalizeInputs(c, st, headerNumber) ==
    LET cur == GetCurrentSpan(st.spans, headerNumber - 1)
        to  == GenesisTime + c.Period * (headerNumber - c.Sprint)
    IN  IF headerNumber % c.Sprint # 0
        THEN { [current |-> [err |-> "nil", span |-> cur],
                heimdallSpan |-> [err |-> "not asked"],
                events |-> [err |-> "not asked"], to |-> to] }
        ELSE { [current |-> current, heimdallSpan |-> hs, events |-> ev, to |-> to] :
                 current \in { [err |-> "nil", span |-> cur],
                               [err |-> "GetCurrentSpan failed", span |-> << >>] },
                 hs \in IF needToCommitSpan(c, cur, headerNumber)
                        THEN { [err |-> "nil", ChainID |-> ChainID, evm |-> "nil"],
                               [err |-> "nil", ChainID |-> ChainID,
                                evm |-> "execution reverted"],
                               [err |-> "nil", ChainID |-> "other", evm |-> "nil"],
                               [err |-> "fetch failed"] }
                        ELSE { [err |-> "not asked"] },
                 ev \in { [err |-> "fetch failed", records |-> << >>],
                          [err |-> "nil",
                           records |-> << [ID |-> st.lastStateID + 1, ChainID |-> "other",
                                           Time |-> to - 1, commit |-> "nil"] >>] }
                        \cup { [err |-> "nil",
                                records |-> << [ID |-> st.lastStateID + 1,
                                                ChainID |-> ChainID, Time |-> to - 1,
                                                commit |-> "nil"] >>] :
                               x \in { y \in {1} : st.lastStateID < MaxEvents } } }

\* the import path: the block is processed, Finalize is called, the import
\* goes on
DoFinalize ==
    /\ finalized.number < finalized.last
    /\ LET number == finalized.number + 1
       IN  \E in \in FinalizeInputs(config, statedb, number) :
             LET out == Finalize(config, statedb, number, in)
             IN  /\ call' = [op |-> "Finalize", number |-> number, in |-> in,
                             returned |-> out.returned, log |-> out.log,
                             rootSet |-> out.rootSet, uncleSet |-> out.uncleSet,
                             codeSet |-> out.codeSet, steps |-> out.steps,
                             stateSyncs |-> out.stateSyncs,
                             requested |-> out.requested, messages |-> out.messages,
                             finalised |-> out.finalised, statedb |-> statedb]
                 /\ statedb' = out.statedb
                 /\ finalized' = [finalized EXCEPT
                        !.number = number,
                        !.triggered = IF out.triggered THEN @ \cup { number } ELSE @]
    /\ UNCHANGED << heap, config, contractVals, chain, recents, db, now, signer,
                    signFn, lock, auth, seal, stop, timer, results, resultsCap,
                    recvWaiting, received, vh, prep >>

\* the production path: the worker calls FinalizeAndAssemble and has a block
\* to seal, or an error and no block
DoFinalizeAndAssemble ==
    /\ finalized.number < finalized.last
    /\ LET number == finalized.number + 1
       IN  \E in \in FinalizeInputs(config, statedb, number) :
             LET out == FinalizeAndAssemble(config, statedb, number, in)
             IN  /\ call' = [op |-> "FinalizeAndAssemble", number |-> number, in |-> in,
                             returned |-> out.returned, log |-> out.log,
                             rootSet |-> out.rootSet, uncleSet |-> out.uncleSet,
                             codeSet |-> out.codeSet, steps |-> out.steps,
                             stateSyncs |-> out.stateSyncs,
                             requested |-> out.requested, messages |-> out.messages,
                             finalised |-> out.finalised, statedb |-> statedb]
                 /\ statedb' = IF out.returned.err = "nil" THEN out.statedb ELSE statedb
                 /\ finalized' = [finalized EXCEPT
                        !.number = IF out.returned.err = "nil" THEN number ELSE @,
                        !.triggered = IF out.triggered THEN @ \cup { number } ELSE @]
    /\ UNCHANGED << heap, config, contractVals, chain, recents, db, now, signer,
                    signFn, lock, auth, seal, stop, timer, results, resultsCap,
                    recvWaiting, received, vh, prep >>

-----------------------------------------------------------------------------
(* Snapshot lookups on a chain, before and after a restart *)

\* Bor.snapshot(chain, number, hash, nil) for a header of the chain, as
\* Prepare, Seal and the API make it; call keeps the LRU and the store of
\* before, the anchor the walk ended at and the headers it gathered
CallSnapshot ==
    /\ call.op \in { "none", "snapshot", "restart" }
    /\ \E h \in chain :
         \E w \in { SnapshotWalk(config, contractVals, chain, recents, db, h.Number,
                                  Hash(h), [parents |-> << >>, headers |-> << >>]) } :
         \E r \in { SnapshotApply(config, recents, w) } :
             /\ call' = [op |-> "snapshot", number |-> h.Number, hash |-> Hash(h),
                         out |-> r.err, snap |-> r.snap, anchor |-> w.anchor,
                         headers |-> w.headers, recents |-> recents, db |-> db]
             /\ recents' = r.recents
             /\ heap' = snapshotIn(config, heap, w, r.err)
             /\ db' = r.db
    /\ UNCHANGED << statedb, finalized, config, contractVals, chain, now, signer,
                    signFn, lock, auth, seal, stop, timer, results, resultsCap,
                    recvWaiting, received, vh, prep >>

\* the node is restarted: New builds an empty LRU over the same database
Restart ==
    /\ call.op \in { "none", "snapshot" }
    /\ recents # {}
    /\ recents' = {}
    /\ heap' = EmptyHeap
    /\ call' = [op |-> "restart"]
    /\ UNCHANGED << statedb, finalized, config, contractVals, chain, db, now, signer,
                    signFn, lock, auth, seal, stop, timer, results, resultsCap,
                    recvWaiting, received, vh, prep >>

-----------------------------------------------------------------------------
(* Single calls of the package's functions *)

\* CalcProducerDelay(number, succession, c) called once, for a block of the
\* first two sprints and a signer in turn or up to NumAddrs places behind
CallCalcProducerDelay ==
    /\ call.op = "none"
    /\ \E number \in 0..(2 * MaxBlock), succession \in 0..NumAddrs :
         call' = [op |-> "CalcProducerDelay", number |-> number,
                  succession |-> succession,
                  out |-> CalcProducerDelay(number, succession, config)]
    /\ UNCHANGED << heap, statedb, finalized, config, contractVals, chain, recents, db, now,
                    signer, signFn, lock, auth, seal, stop, timer, results,
                    resultsCap, recvWaiting, received, vh, prep >>

\* needToCommitSpan(span, headerNumber) called once: no span, a span not set
\* yet (EndBlock 0) or a span ending within the first three sprints, and a
\* header of those blocks
CallneedToCommitSpan ==
    /\ call.op = "none"
    /\ \E span \in { << >> } \cup
                   { << [ID |-> 1, StartBlock |-> IF e = 0 THEN 0 ELSE 1,
                         EndBlock |-> e] >> : e \in 0..(3 * MaxBlock) },
          headerNumber \in 0..(3 * MaxBlock) :
         call' = [op |-> "needToCommitSpan", span |-> span,
                  headerNumber |-> headerNumber,
                  out |-> needToCommitSpan(config, span, headerNumber)]
    /\ UNCHANGED << heap, statedb, finalized, config, contractVals, chain, recents, db, now,
                    signer, signFn, lock, auth, seal, stop, timer, results,
                    resultsCap, recvWaiting, received, vh, prep >>

\* getUpdatedValidatorSet(oldValidatorSet, newVals) called once: the old set
\* holds some of the addresses with power 1, after one round of priorities;
\* newVals is a list as ParseValidators yields it from a header's bytes, up to
\* two entries of power 0, 1 or 2, in any order, an address twice included
CallgetUpdatedValidatorSet ==
    /\ call.op = "none"
    /\ config = MkConfig(2, 4, 4, 2)
    /\ \E olds \in (SUBSET Addrs) \ { {} },
          newVals \in SeqsUpTo({ Validator(a, pw) : a \in Addrs, pw \in 0..2 }, 2) :
         LET old == IncrementProposerPriority(NewValidatorSet(
                        [i \in 1..NumAddrs |-> Validator(i, 1)]))
             oldValidatorSet ==
                 [old EXCEPT !.Validators =
                     SelectSeq(@, LAMBDA v : v.Address \in olds)]
         IN  call' = [op |-> "getUpdatedValidatorSet", old |-> oldValidatorSet,
                      newVals |-> newVals,
                      out |-> getUpdatedValidatorSet(oldValidatorSet, newVals)]
    /\ UNCHANGED << heap, statedb, finalized, config, contractVals, chain, recents, db, now,
                    signer, signFn, lock, auth, seal, stop, timer, results,
                    resultsCap, recvWaiting, received, vh, prep >>

-----------------------------------------------------------------------------
(* Prepare and CalcDifficulty beside Authorize: the reads of c.signer *)

\* Authorize, lines 808-811: c.lock.Lock() is taken, c.signer = signer is
\* about to copy the 20 bytes
AuthorizeLock(j) ==
    /\ auth[j].pc = "idle"
    /\ LockAvailable(lock)
    /\ \E a \in Addrs : auth' = [auth EXCEPT ![j] = [pc |-> "writing", signer |-> a]]
    /\ lock' = [lock EXCEPT !.writer = j]
    /\ UNCHANGED << heap, statedb, finalized, call, config, contractVals, chain, recents, db,
                    now, signer, signFn, seal, stop, timer, results, resultsCap,
                    recvWaiting, received, vh, prep >>

\* line 811: the copy is complete
AuthorizeWrite(j) ==
    /\ auth[j].pc = "writing"
    /\ signer' = auth[j].signer
    /\ auth' = [auth EXCEPT ![j].pc = "locked"]
    /\ UNCHANGED << heap, statedb, finalized, call, config, contractVals, chain, recents, db,
                    now, signFn, lock, seal, stop, timer, results, resultsCap,
                    recvWaiting, received, vh, prep >>

\* the address an Authorize is writing into c.signer, if one is
Writing == { auth[j].signer : j \in { i \in AuthCalls : auth[i].pc = "writing" } }

\* A read of c.signer without c.lock (lines 640, 674, 675, 902): the two
\* halves of the 20 bytes, each as the field holds it or as the Authorize
\* that is writing the field leaves it (a data race: the copy and the read
\* are not ordered)
SignerReads == { << x, y >> : x, y \in { signer } \cup Writing }

\* an address that is nobody's: the halves of two addresses
TornAddress == NumAddrs + 1

AddressRead(rd) == IF rd[1] = rd[2] THEN rd[1] ELSE TornAddress

\* Prepare with its three reads of c.signer: for the difficulty (640), for the
\* test against the zero address (674) and for the succession number (675)
PrepareReading(c, cv, ch, t, sgnD, sgnZ, sgnS, header, s) ==
    IF s.err # "nil"
    THEN [err |-> s.err, header |-> header]
    ELSE PrepareTimestamp(c, t, PrepareFields(c, cv, header, s.snap, sgnD),
                          GetHeader(ch, header.ParentHash, header.Number - 1),
                          IF sgnZ # ZeroAddress
                          THEN GetSignerSuccessionNumber(s.snap, sgnS)
                          ELSE [err |-> "nil", n |-> 0])

\* Prepare, lines 627-640: the snapshot, and the difficulty of c.signer
PrepareDifficulty ==
    /\ call.op = "none"
    /\ \E s \in { snapshot(config, contractVals, chain, recents, db,
                           Tip(chain).Number, Hash(Tip(chain)), << >>) } :
         /\ s.err = "nil"
         /\ recents' = s.recents
         /\ db' = s.db
         /\ heap' = lookupIn(config, contractVals, chain, recents, db, heap,
                             FreshHeader(chain, << >>), << >>, s.recents)
         /\ \E rd \in SignerReads :
              call' = [op |-> "Prepare:640", s |-> s, readD |-> rd]
    /\ UNCHANGED << statedb, finalized, config, contractVals, chain, now, signer, signFn,
                    lock, auth, seal, stop, timer, results, resultsCap, recvWaiting,
                    received, vh, prep >>

\* line 674: c.signer is compared with the zero address
PrepareSignerSet ==
    /\ call.op = "Prepare:640"
    /\ \E rd \in SignerReads :
         call' = [op |-> "Prepare:674", s |-> call.s, readD |-> call.readD, readZ |-> rd]
    /\ UNCHANGED << heap, statedb, finalized, config, contractVals, chain, recents, db, now,
                    signer, signFn, lock, auth, seal, stop, timer, results,
                    resultsCap, recvWaiting, received, vh, prep >>

\* lines 675-687: the succession number of c.signer, the time, return
PrepareSuccession ==
    /\ call.op = "Prepare:674"
    /\ \E rd \in SignerReads :
         \E r \in { PrepareReading(config, contractVals, chain, now,
                                   AddressRead(call.readD), AddressRead(call.readZ),
                                   AddressRead(rd), FreshHeader(chain, << >>),
                                   call.s) } :
           call' = [op |-> "Prepare", s |-> call.s, readD |-> call.readD,
                    readZ |-> call.readZ, readS |-> rd,
                    header |-> r.header, out |-> r.err]
    /\ UNCHANGED << heap, statedb, finalized, config, contractVals, chain, recents, db, now,
                    signer, signFn, lock, auth, seal, stop, timer, results,
                    resultsCap, recvWaiting, received, vh, prep >>

\* CalcDifficulty(chain, time, parent) for the head of the chain
CallCalcDifficulty ==
    /\ call.op = "none"
    /\ \E s \in { snapshot(config, contractVals, chain, recents, db,
                           Tip(chain).Number, Hash(Tip(chain)), << >>) } :
         /\ s.err = "nil"
         /\ recents' = s.recents
         /\ db' = s.db
         /\ heap' = lookupIn(config, contractVals, chain, recents, db, heap,
                             FreshHeader(chain, << >>), << >>, s.recents)
         /\ \E rd \in SignerReads :
              call' = [op |-> "CalcDifficulty", s |-> s, read |-> rd,
                       out |-> Difficulty(s.snap, AddressRead(rd))]
    /\ UNCHANGED << statedb, finalized, config, contractVals, chain, now, signer, signFn,
                    lock, auth, seal, stop, timer, results, resultsCap, recvWaiting,
                    received, vh, prep >>

-----------------------------------------------------------------------------
(* Specifications *)

SealConfigs == { MkConfig(2, 4, 4, 2), MkConfig(0, 4, 4, 2) }

PrepConfigs ==
    { MkConfig(period, sprint, producerDelay, backupMultiplier) :
        period \in {1, 2}, sprint \in {2, 4}, producerDelay \in {1, 2, 4},
        backupMultiplier \in {0, 2} }

\* the engine after New, nothing called yet
InitEngine ==
    /\ contractVals \in ContractAnswers
    /\ chain = { Genesis }
    /\ recents = {}
    /\ heap = EmptyHeap
    /\ db = {}
    /\ lock = [writer |-> 0, readers |-> {}]
    /\ seal = [i \in SealCalls |-> IdleSealCall]
    /\ stop = [i \in SealCalls |-> FALSE]
    /\ timer = [i \in SealCalls |-> "off"]
    /\ results = << >>
    /\ recvWaiting = FALSE
    /\ received = << >>
    /\ vh = IdleVH
    /\ prep = IdlePrep
    /\ call = [op |-> "none"]

\* no block is being finalized
NotFinalizing ==
    /\ statedb = [spans |-> << >>, lastStateID |-> 0]
    /\ finalized = [number |-> 0, last |-> 0, triggered |-> {}]

\* Authorize was not called
Unauthorized ==
    /\ signer = ZeroAddress
    /\ signFn = 0
    /\ auth = [j \in AuthCalls |-> [pc |-> "idle", signer |-> ZeroAddress]]

\* Authorize was called once, for account a, and has returned
AuthorizedFor(a) ==
    /\ signer = a
    /\ signFn = 1
    /\ auth = [j \in AuthCalls |-> IF j = 1 THEN [pc |-> "done", signer |-> a]
                                   ELSE [pc |-> "idle", signer |-> ZeroAddress]]

\* Batch verification: one VerifyHeaders call, its worker and its caller
InitVerifyHeaders ==
    /\ InitEngine
    /\ NotFinalizing
    /\ Unauthorized
    /\ config \in BatchConfigs
    /\ now = GenesisTime + 5
    /\ resultsCap = 0

NextVerifyHeaders ==
    \/ VerifyHeaders
    \/ WorkerVerify
    \/ WorkerSelectAbort
    \/ WorkerSelectSend
    \/ CallerAbort
    \/ CallerReceive

SpecVerifyHeaders == InitVerifyHeaders /\ [][NextVerifyHeaders]_vars

\* the errors verifyHeader returns
Verdicts ==
    { "nil", "errUnknownBlock", "ErrFutureBlock", "errMissingVanity",
      "errMissingSignature", "errExtraValidators", "errInvalidSpanValidators",
      "errInvalidMixDigest", "errInvalidUncleHash", "errInvalidDifficulty",
      "ErrUnknownAncestor", "ErrInvalidTimestamp", "errInvalidValidatorBytes",
      "MismatchingValidatorsError", "errOutOfRangeChain", "errInvalidSignature",
      "errRecentlySigned", "UnauthorizedSignerError", "BlockTooSoonError",
      "WrongDifficultyError" }

\* the step of WorkerVerify as the worker takes it: verifyHeader returned, the
\* worker is at the select with the verdict
WorkerVerified ==
    /\ vh.pc = "loop"
    /\ \E e \in Verdicts : vh' = [vh EXCEPT !.pc = "select", !.err = e]

\* The worker goroutine is scheduled while it can take a step: verifyHeader
\* returns, and a select with a ready case proceeds.  Nothing is assumed of the
\* caller: it may never receive and never abort.
FairVerifyHeaders ==
    /\ WF_vh(WorkerVerified)
    /\ WF_vars(WorkerSelectAbort \/ WorkerSelectSend)

SpecVerifyHeadersFair == SpecVerifyHeaders /\ FairVerifyHeaders

\* Sealing: the Seal calls of an engine that was authorized or not, their
\* goroutines, the callers that stop them and the miner that reads the results
\* channel
InitSeal ==
    /\ InitEngine
    /\ NotFinalizing
    /\ Unauthorized \/ \E a \in Addrs : AuthorizedFor(a)
    /\ config \in SealConfigs
    /\ now = GenesisTime
    /\ resultsCap \in {0, 1}

NextSeal ==
    \/ \E i \in SealCalls :
         \/ SealCall(i)
         \/ SealRLock(i)
         \/ SealRUnlock(i)
         \/ SealSign(i)
         \/ GoEnter(i)
         \/ TimerFire(i)
         \/ Stop(i)
         \/ GoSelectStop(i)
         \/ GoSelectTimer(i)
         \/ GoDeliver(i)
         \/ GoDrop(i)
    \/ Receive
    \/ ReceiveLeave

SpecSeal == InitSeal /\ [][NextSeal]_vars

\* Authorization: Authorize calls and Seal calls side by side, from the copy
\* of the signer fields to the goroutines' wait on their timers
InitAuthorize ==
    /\ InitEngine
    /\ NotFinalizing
    /\ Unauthorized
    /\ config = MkConfig(2, 4, 4, 2)
    /\ now = GenesisTime
    /\ resultsCap = 0

NextAuthorize ==
    \/ \E j \in AuthCalls : AuthLock(j) \/ AuthUnlock(j)
    \/ \E i \in SealCalls :
         \/ SealCall(i)
         \/ SealRLock(i)
         \/ SealRUnlock(i)
         \/ SealSign(i)
         \/ GoEnter(i)

SpecAuthorize == InitAuthorize /\ [][NextAuthorize]_vars

\* Production: Prepare, FinalizeAndAssemble, Seal and VerifyHeader of the
\* blocks a signer builds on the chain, while time passes
InitPrepare ==
    /\ InitEngine
    /\ NotFinalizing
    /\ Unauthorized \/ \E a \in Addrs : AuthorizedFor(a)
    /\ config \in PrepConfigs
    /\ now = GenesisTime
    /\ resultsCap = 0

NextPrepare ==
    \/ PrepPrepare
    \/ PrepAssemble
    \/ PrepSeal
    \/ PrepVerify
    \/ PrepImport
    \/ PrepDiscard
    \/ Tick

SpecPrepare == InitPrepare /\ [][NextPrepare]_vars

\* Verification: the chain imports a few blocks, then one header is verified
InitVerify ==
    /\ InitEngine
    /\ NotFinalizing
    /\ Unauthorized
    /\ config \in BatchConfigs
    /\ now = GenesisTime + 4 * MaxBlock
    /\ resultsCap = 0

\* ... by VerifySeal
NextVerifySeal ==
    \/ ChainInsert
    \/ CallVerifySeal

SpecVerifySeal == InitVerify /\ [][NextVerifySeal]_vars

\* ... by VerifyHeader, or the next header is prepared
NextVerifyHeader ==
    \/ ChainInsert
    \/ CallVerifyHeader
    \/ CallPrepare

SpecVerifyHeader == InitVerify /\ [][NextVerifyHeader]_vars

\* State sync: one call of CommitStates, the state receiver having committed
\* the events up to 10
InitCommitStates ==
    /\ InitEngine
    /\ Unauthorized
    /\ config = MkConfig(2, 4, 4, 2)
    /\ now = GenesisTime
    /\ resultsCap = 0
    /\ contractVals[1] = << V1, V2 >>
    /\ statedb = [spans |-> << >>, lastStateID |-> 10]
    /\ finalized = [number |-> 0, last |-> 0, triggered |-> {}]

NextCommitStates ==
    \/ CallCommitStates
    \/ CallCommitStatesNoEvents

SpecCommitStates == InitCommitStates /\ [][NextCommitStates]_vars

\* The spans blocks are finalized in: scenario S5 (sprint 16, span 5 of the
\* blocks 100..163), the same span ending at 175, and with sprint 4 a span of
\* the blocks 1..e for every e up to three sprints, a span not set yet, and
\* no span
FinalizeRuns ==
    { [config |-> MkConfig(2, 16, 16, 2),
       spans  |-> << [ID |-> 5, StartBlock |-> 100, EndBlock |-> e] >>] :
        e \in { 163, 175 } }
    \cup
    { [config |-> MkConfig(2, 4, 4, 2),
       spans  |-> << [ID |-> 1, StartBlock |-> 1, EndBlock |-> e] >>] :
        e \in 2..12 }
    \cup
    { [config |-> MkConfig(2, 4, 4, 2),
       spans  |-> << [ID |-> 0, StartBlock |-> 0, EndBlock |-> 0] >>],
      [config |-> MkConfig(2, 4, 4, 2), spans |-> << >>] }

\* Finalization: the blocks of a span are finalized in order, each by
\* Finalize or by FinalizeAndAssemble
InitFinalize ==
    /\ InitEngine
    /\ Unauthorized
    /\ contractVals[1] = << V1, V2 >>
    /\ now = GenesisTime
    /\ resultsCap = 0
    /\ \E run \in FinalizeRuns :
         /\ config = run.config
         /\ statedb = [spans |-> run.spans, lastStateID |-> 0]
         /\ finalized =
              [number |-> IF run.spans = << >> \/ run.spans[1].StartBlock = 0 THEN 0
                          ELSE run.spans[1].StartBlock - 1,
               last |-> IF run.spans = << >> \/ run.spans[1].EndBlock = 0
                        THEN 2 * run.config.Sprint
                        ELSE run.spans[1].EndBlock,
               triggered |-> {}]

NextFinalize ==
    \/ DoFinalize
    \/ DoFinalizeAndAssemble

SpecFinalize == InitFinalize /\ [][NextFinalize]_vars

\* A node whose chain reader holds the chain from the block before the first
\* checkpoint on (the older headers are not modelled), with the snapshot at
\* that block in the LRU, as a lookup at the head leaves it
\* the validator contract answers with the same validators for every block of
\* the segment, or from the second block on with more power for the second
\* validator, or with a third validator
SegmentAnswers ==
    { [n \in checkpointInterval..(checkpointInterval + MaxBlock) |->
         IF n < checkpointInterval + 2 THEN << V1, V2 >> ELSE later] :
      later \in { << V1, V2 >>, << V1, Validator(2, 2) >>,
                  << V1, V2, Validator(3, 1) >> } }

InitSegment ==
    /\ config \in BatchConfigs
    /\ contractVals \in SegmentAnswers
    /\ \E b \in { MkHeader(checkpointInterval - 1, GenesisTime,
                          << checkpointInterval - 2 >>, 1,
                          ValidatorsBytes(<< V1, V2 >>), 1) } :
         /\ chain = { b }
         /\ recents = { newSnapshot(b.Number, Hash(b), << V1, V2 >>) }
         /\ heap = LruAdd(Alloc(EmptyHeap,
                                newSnapshot(b.Number, Hash(b), << V1, V2 >>)).heap, 1)
    /\ db = {}
    /\ lock = [writer |-> 0, readers |-> {}]
    /\ seal = [i \in SealCalls |-> IdleSealCall]
    /\ stop = [i \in SealCalls |-> FALSE]
    /\ timer = [i \in SealCalls |-> "off"]
    /\ results = << >>
    /\ recvWaiting = FALSE
    /\ received = << >>
    /\ vh = IdleVH
    /\ prep = IdlePrep
    /\ call = [op |-> "none"]
    /\ NotFinalizing
    /\ Unauthorized
    /\ now = GenesisTime + 4 * MaxBlock
    /\ resultsCap = 0

\* Lookups: the chain imports blocks in order, from the genesis or across the
\* first checkpoint; then snapshots are looked up and the node is restarted
InitSnapshots == InitVerify \/ InitSegment

NextSnapshots ==
    \/ ChainInsert
    \/ CallSnapshot
    \/ Restart

SpecSnapshots == InitSnapshots /\ [][NextSnapshots]_vars

\* Functions: one function of the package is called once, under any of the
\* configurations
InitFunctions ==
    /\ InitEngine
    /\ NotFinalizing
    /\ Unauthorized
    /\ config \in PrepConfigs
    /\ contractVals[1] = << V1, V2 >>
    /\ now = GenesisTime
    /\ resultsCap = 0

NextFunctions ==
    \/ CallCalcProducerDelay
    \/ CallneedToCommitSpan
    \/ CallgetUpdatedValidatorSet

SpecFunctions == InitFunctions /\ [][NextFunctions]_vars

\* The signer's reads: Authorize calls beside one Prepare or one
\* CalcDifficulty on the genesis
InitSignerReads ==
    /\ InitEngine
    /\ NotFinalizing
    /\ Unauthorized \/ \E a \in Addrs : AuthorizedFor(a)
    /\ config = MkConfig(2, 4, 4, 2)
    /\ now = GenesisTime
    /\ resultsCap = 0

NextSignerReads ==
    \/ \E j \in AuthCalls : AuthorizeLock(j) \/ AuthorizeWrite(j) \/ AuthUnlock(j)
    \/ PrepareDifficulty
    \/ PrepareSignerSet
    \/ PrepareSuccession
    \/ CallCalcDifficulty

SpecSignerReads == InitSignerReads /\ [][NextSignerReads]_vars

-----------------------------------------------------------------------------
(* Properties of VerifyHeaders *)

\* The verdicts of headers[k], headers[k+1], ... when they are verified one
\* after the other, each with the headers before it as its parents batch,
\* starting with the caches rec and store
RECURSIVE VerdictsFrom(_, _, _, _), VerdictsAfter(_, _, _)
VerdictsFrom(headers, k, rec, store) ==
    IF k > Len(headers) THEN << >>
    ELSE VerdictsAfter(headers, k,
                       verifyHeader(config, contractVals, chain, rec, store, now,
                                    headers[k], SubSeq(headers, 1, k - 1)))

VerdictsAfter(headers, k, r) ==
    << r.err >> \o VerdictsFrom(headers, k + 1, r.recents, r.db)

\* what the worker has put on the results channel so far
Sent == vh.got \o vh.results

\* C1: as long as the batch is not aborted, the verdicts on the results
\* channel are those of headers[0], headers[1], ... in this order, the k-th
\* being verifyHeader of headers[k] with headers[0..k-1] as parents; when the
\* worker is done there is exactly one verdict per header.
C1_VerdictPerHeaderInOrder ==
    (vh.pc # "idle" /\ ~vh.abort) =>
        /\ Len(Sent) = vh.i
        /\ Sent = SubSeq(VerdictsFrom(vh.headers, 1, {}, {}), 1, vh.i)
        /\ (vh.pc = "done" => vh.i = Len(vh.headers))

\* a batch of two headers, the second accepted on the strength of the first,
\* was verified and received in full
C1_Witness ==
    /\ vh.pc = "done"
    /\ ~vh.abort
    /\ vh.got = << "nil", "nil" >>
    /\ vh.results = << >>

\* C2: once abort is signalled the worker sends no further result.
C2_NoSendAfterAbort == ~vh.sentAfterAbort

-----------------------------------------------------------------------------
(* Properties of Seal and Authorize *)

PausedLog == "Sealing paused, waiting for transactions"

\* the blocks of Seal call i that reached the results channel
BlocksOf(i) ==
    Cardinality({ k \in 1..Len(results \o received) :
                    (results \o received)[k].call = i })

\* Seal call i got as far as the authorization check
ReachedCheck(i) ==
    /\ seal[i].pc = "returned"
    /\ seal[i].ret # "errUnknownBlock"
    /\ PausedLog \notin seal[i].log

\* the local signer of Seal call i is not in the validator set of the snapshot
\* of the block's parent
NotInParentSet(i) ==
    LET s == snapshot(config, contractVals, chain, recents, db,
                      seal[i].block.header.Number - 1,
                      seal[i].block.header.ParentHash, << >>)
    IN  /\ s.err = "nil"
        /\ seal[i].lsigner \notin AddressesOf(s.snap.ValidatorSet.Validators)

\* Seal call i signed nothing, started nothing and delivered nothing
Quiet(i) ==
    /\ seal[i].signCalls = 0
    /\ seal[i].g = "none"
    /\ timer[i] = "off"
    /\ seal[i].delivered = 0
    /\ BlocksOf(i) = 0

\* C3: a Seal call delivers at most one block; a block that the results
\* channel could not take when the goroutine tried is dropped, the goroutine
\* ends and the block is never delivered.
C3_AtMostOneBlock ==
    \A i \in SealCalls :
        /\ seal[i].delivered <= 1
        /\ BlocksOf(i) = seal[i].delivered
        /\ seal[i].dropped => (seal[i].delivered = 0 /\ seal[i].g = "done")

\* a block was dropped, and the receiver that came later waits in vain
C3_Witness ==
    \E i \in SealCalls :
        seal[i].dropped /\ seal[i].g = "done" /\ recvWaiting /\ received = << >>

\* C4: a Seal call whose stop channel was closed before the delay expired
\* delivers no block.
C4_StoppedEarlyDeliversNothing ==
    \A i \in SealCalls : seal[i].stopEarly => seal[i].delivered = 0

\* C5 as stated: the sign function is invoked only when the delay has expired,
\* and a Seal call stopped during the wait never invokes it.
C5_SignOnlyOnExpiry ==
    \A i \in SealCalls :
        /\ seal[i].signCalls > 0 => seal[i].timerAtSign = "fired"
        /\ seal[i].stopAtSelect => seal[i].signCalls = 0

\* C5, amended: the sign function is invoked once, and the signature written
\* over the last 65 bytes of the extra-data, before the delay wait starts; a
\* goroutine exists, and a timer runs, only for a header already signed.
C5_SignBeforeWait ==
    \A i \in SealCalls :
        /\ seal[i].signCalls <= 1
        /\ seal[i].signCalls = 1 => seal[i].timerAtSign = "off"
        /\ timer[i] # "off" => seal[i].signCalls = 1
        /\ seal[i].g # "none" =>
              /\ seal[i].signCalls = 1
              /\ LET extra == seal[i].block.header.Extra
                 IN  SubSeq(extra, Len(extra) - extraSeal + 1, Len(extra))
                        = Signature(seal[i].lsigner)

\* a Seal call stopped during the wait, the delay not expired: it has signed
C5_Witness ==
    \E i \in SealCalls :
        seal[i].stopAtSelect /\ timer[i] = "running" /\ seal[i].signCalls = 1

\* the pairs (signer, sign function) that are installed: the initial one and
\* those of the Authorize calls that returned
InstalledPairs ==
    { << ZeroAddress, 0 >> }
        \cup { << auth[j].signer, j >> : j \in { k \in AuthCalls : auth[k].pc = "done" } }

\* C6: the signer and the sign function a Seal call took its copy of, checked
\* and signed with, are those of one Authorize call (or the initial ones), and
\* Seal does not hold the lock once its goroutine exists.
C6_PairOfOneAuthorize ==
    \A i \in SealCalls :
        /\ seal[i].pc \in {"check", "returned"} =>
              << seal[i].lsigner, seal[i].lsignFn >> \in InstalledPairs
        /\ seal[i].signCalls > 0 =>
              /\ seal[i].checked = seal[i].signAccount
              /\ << seal[i].signAccount, seal[i].signFnUsed >> \in InstalledPairs
        /\ seal[i].g # "none" => i \notin lock.readers

\* a Seal call waits on its timer while an Authorize call, holding the lock,
\* has written another signer
C6_Witness ==
    \E i \in SealCalls, j \in AuthCalls :
        /\ seal[i].g = "select"
        /\ seal[i].signFnUsed # 0
        /\ auth[j].pc = "locked"
        /\ auth[j].signer # seal[i].signAccount

\* C7: a Seal call whose local signer is not in the validator set of the
\* parent snapshot returns UnauthorizedSignerError; the sign function is not
\* invoked and no block is ever delivered.
C7_UnauthorizedSignerFails ==
    \A i \in SealCalls :
        (ReachedCheck(i) /\ NotInParentSet(i)) =>
            (seal[i].ret = "UnauthorizedSignerError" /\ Quiet(i))

\* an authorized-by-Authorize signer outside the validator set was refused
\* while a receiver waits on the results channel
C7_Witness ==
    \E i \in SealCalls :
        /\ seal[i].ret = "UnauthorizedSignerError"
        /\ seal[i].lsigner # ZeroAddress
        /\ seal[i].lsignFn # 0
        /\ recvWaiting

C9_EmptyBlockAndGenesisNotSealed ==
    \A i \in SealCalls :
        /\ (/\ seal[i].pc # "idle"
            /\ seal[i].block.header.Number # 0
            /\ config.Period = 0
            /\ seal[i].block.txs = 0) =>
              /\ seal[i].pc = "returned"
              /\ seal[i].ret = "nil"
              /\ i \notin lock.readers
              /\ Quiet(i)
        /\ (seal[i].pc # "idle" /\ seal[i].block.header.Number = 0) =>
              /\ seal[i].pc = "returned"
              /\ seal[i].ret = "errUnknownBlock"
              /\ i \notin lock.readers
              /\ Quiet(i)

\* the Seal of an empty block on a chain of period 0 has returned, a signer
\* is authorized and a receiver waits: nothing arrives
C9_Witness ==
    \E i \in SealCalls :
        /\ seal[i].pc = "returned"
        /\ seal[i].ret = "nil"
        /\ seal[i].block.header.Number # 0
        /\ seal[i].block.txs = 0
        /\ config.Period = 0
        /\ signFn # 0
        /\ recvWaiting

-----------------------------------------------------------------------------
(* Properties of Prepare *)

\* C10: a header filled in by Prepare and sealed by a signer of the parent
\* snapshot's validator set is not rejected by verification for its time or
\* its difficulty.
C10_ProducedHeaderAccepted ==
    prep.pc = "verified" =>
        prep.verdict \notin { "ErrInvalidTimestamp", "BlockTooSoonError",
                              "WrongDifficultyError" }

-----------------------------------------------------------------------------
(* Seal verification *)

\* the parent verifySeal compares times with, and the snapshot it decided on
\* (the one cached under the header's parent hash once the call returned)
SealParent ==
    IF Len(call.parents) > 0 THEN { call.parents[Len(call.parents)] }
    ELSE { h \in chain : Hash(h) = call.header.ParentHash
                         /\ h.Number = call.header.Number - 1 }

SealCase ==
    /\ call.op = "verifySeal"
    /\ call.header.Number > 0
    /\ SealParent # { }
    /\ Lookup(recents, call.header.ParentHash) # << >>

\* producer_delay(number, succession) of the specification, section 4.E
producer_delay(number, succession) ==
    (IF number % config.Sprint = 0 THEN config.ProducerDelay ELSE config.Period)
    + succession * config.BackupMultiplier

SealDecision(header, snap, parent) ==
    LET sgn == header.Extra[Len(header.Extra)]
    IN  IF sgn \notin AddressesOf(snap.ValidatorSet.Validators)
        THEN "UnauthorizedSignerError"
        ELSE IF header.Time < parent.Time
                  + producer_delay(header.Number,
                                   GetSignerSuccessionNumber(snap, sgn).n)
        THEN "BlockTooSoonError"
        ELSE IF header.Difficulty # Difficulty(snap, sgn)
        THEN "WrongDifficultyError"
        ELSE "nil"

\* C11: seal verification of a header with number > 0 whose parent and parent
\* snapshot are available answers UnauthorizedSigner when the signer is not in
\* the snapshot's validator set, else BlockTooSoon exactly when the header's
\* time is below the parent's time plus the producer delay of the signer's
\* succession number, else WrongDifficulty exactly when the difficulty differs
\* from the snapshot's difficulty of the signer, else it accepts; so with
\* period 2 and backup multiplier 2 a block of succession 1 that is not a
\* sprint start is too soon 3 seconds after its parent and accepted 4 seconds
\* after it.
C11_SealDecisionOrder ==
    SealCase =>
        LET header == call.header
            snap   == Lookup(recents, header.ParentHash)[1]
            parent == CHOOSE h \in SealParent : TRUE
            sgn    == header.Extra[Len(header.Extra)]
        IN  /\ call.out = SealDecision(header, snap, parent)
            /\ ( /\ config.Period = 2
                 /\ config.BackupMultiplier = 2
                 /\ header.Number % config.Sprint # 0
                 /\ HasAddress(snap.ValidatorSet, sgn)
                 /\ GetSignerSuccessionNumber(snap, sgn).n = 1 )
               => /\ header.Time = parent.Time + 3 => call.out = "BlockTooSoonError"
                  /\ ( header.Time = parent.Time + 4 /\ header.Difficulty = 1 )
                     => call.out = "nil"

\* an out-of-turn block of succession 1 verified 3 seconds after its parent
C11_Witness ==
    /\ SealCase
    /\ call.header.Extra[Len(call.header.Extra)] = 2
    /\ call.header.Number = 1
    /\ call.header.Time = GenesisTime + 3
    /\ call.out = "BlockTooSoonError"

-----------------------------------------------------------------------------
(* Validator bytes at the sprint boundary *)

\* Prepare produced, or VerifyHeader accepted, a header on a chain whose
\* contract reports validators
BoundaryCase ==
    /\ call.op \in { "Prepare", "verifyHeader" }
    /\ call.out = "nil"

CarriesValidatorBytes(header) == Len(header.Extra) > extraVanity + extraSeal

\* C12 as stated: the block with number == sprint carries validator bytes and
\* the block with number == sprint-1 carries none, in what Prepare produces and
\* in what header verification accepts.
C12_BytesAtSprintNumber ==
    BoundaryCase =>
        /\ call.header.Number = config.Sprint => CarriesValidatorBytes(call.header)
        /\ call.header.Number = config.Sprint - 1 => ~CarriesValidatorBytes(call.header)

\* C12, amended: it is the last block of a sprint, (number+1) mod sprint == 0,
\* that carries validator bytes: the block with number == sprint-1 carries
\* them and the block with number == sprint carries none, in what Prepare
\* produces and in what header verification accepts.
C12_BytesAtSprintEnd ==
    BoundaryCase =>
        /\ CarriesValidatorBytes(call.header) <=> (call.header.Number + 1) % config.Sprint = 0
        /\ call.header.Number = config.Sprint - 1 => CarriesValidatorBytes(call.header)
        /\ call.header.Number = config.Sprint => ~CarriesValidatorBytes(call.header)

\* Prepare produced block sprint-1, with validator bytes
C12_Witness ==
    /\ call.op = "Prepare"
    /\ call.out = "nil"
    /\ call.header.Number = config.Sprint - 1
    /\ CarriesValidatorBytes(call.header)

-----------------------------------------------------------------------------
(* The standalone check of the validator region *)

\* VerifyHeader was called on a header that passes the checks before the one
\* of the validator region: its number is known, its time is not in the
\* future, its extra-data holds a vanity and a seal
RegionCheckCase ==
    /\ call.op = "verifyHeader"
    /\ call.header.Number >= 0
    /\ call.header.Time <= now + allowFutureBlockTimeSeconds
    /\ Len(call.header.Extra) >= extraVanity + extraSeal

RegionLength(header) == Len(header.Extra) - extraVanity - extraSeal

\* C13: the standalone header check rejects with ExtraValidators every
\* non-sprint-end header with bytes between the vanity and the seal, and with
\* InvalidSpanValidators every sprint-end header whose validator region is not
\* a positive multiple of 40 bytes, an empty region included.
C13_RegionPositiveMultipleOf40 ==
    RegionCheckCase =>
        IF (call.header.Number + 1) % config.Sprint # 0
        THEN RegionLength(call.header) # 0 => call.out = "errExtraValidators"
        ELSE ( \/ RegionLength(call.header) = 0
               \/ RegionLength(call.header) % 40 # 0 )
             => call.out = "errInvalidSpanValidators"

-----------------------------------------------------------------------------
(* The validator lists in the cascading check *)

\* VerifyHeader was called on a header that gets as far as the validator
\* lists: it is well-formed, its parent (the last of the parents batch, or the
\* chain's header of that hash and number) is its direct ancestor and early
\* enough, and the snapshot at the parent was found
CascadeParents ==
    IF Len(call.parents) > 0 THEN { call.parents[Len(call.parents)] }
    ELSE { h \in chain : Hash(h) = call.header.ParentHash
                         /\ h.Number = call.header.Number - 1 }

ListsCase ==
    /\ call.op = "verifyHeader"
    /\ call.header.Number > 0
    /\ call.header.Time <= now + allowFutureBlockTimeSeconds
    /\ Len(call.header.Extra) >= extraVanity + extraSeal
    /\ call.header.MixDigest = 0
    /\ call.header.UncleHash = uncleHash
    /\ call.header.Difficulty >= 0
    /\ \E parent \in CascadeParents :
         /\ parent.Number = call.header.Number - 1
         /\ Hash(parent) = call.header.ParentHash
         /\ parent.Time + config.Period <= call.header.Time
    /\ Lookup(recents, call.header.ParentHash) # << >>

\* the 40-byte encodings of validators, in address order
SortedBytes(vals) ==
    LET RECURSIVE Enc(_)
        Enc(rest) ==
            IF rest = { } THEN << >>
            ELSE LET a == CHOOSE x \in rest : \A y \in rest : x <= y
                     v == CHOOSE w \in { vals[i] : i \in DOMAIN vals } : w.Address = a
                 IN  HeaderBytes(v) \o Enc(rest \ { a })
    IN  Enc({ vals[i].Address : i \in DOMAIN vals })

\* ... of the validators the contract reports for block number
ReportedBytes(number) == SortedBytes(GetCurrentValidators(contractVals, number))

\* C14: a header with (number+1) mod sprint == 0 passes the validator-list
\* check only if its validator region equals the header encodings of the
\* validators the contract reports for block number+1, sorted by address;
\* a region of another length, a permutation or a differing entry is
\* answered InvalidSpanValidators.
C14_SpanValidatorsMatchContract ==
    ( ListsCase /\ (call.header.Number + 1) % config.Sprint = 0 ) =>
        LET region == SubSeq(call.header.Extra, extraVanity + 1,
                             Len(call.header.Extra) - extraSeal)
        IN  IF region = ReportedBytes(call.header.Number + 1)
            THEN call.out # "errInvalidSpanValidators"
            ELSE call.out = "errInvalidSpanValidators"

\* a sprint-end header listing the contract's validators in descending order
C14_Witness ==
    /\ ListsCase
    /\ (call.header.Number + 1) % config.Sprint = 0
    /\ call.header.Extra
         = Zeros(extraVanity)
           \o RegionBytes(config, contractVals, call.header.Number, "reversed")
           \o Signature(call.header.Extra[Len(call.header.Extra)])
    /\ call.out = "errInvalidSpanValidators"

-----------------------------------------------------------------------------
(* Unknown ancestors *)

\* VerifyHeader was called on a header with number > 0 that passes the
\* standalone checks
AncestorCase ==
    /\ call.op = "verifyHeader"
    /\ call.header.Number > 0
    /\ call.header.Time <= now + allowFutureBlockTimeSeconds
    /\ Len(call.header.Extra) >= extraVanity + extraSeal
    /\ IF (call.header.Number + 1) % config.Sprint = 0
       THEN RegionLength(call.header) % 40 = 0
       ELSE RegionLength(call.header) = 0
    /\ call.header.MixDigest = 0
    /\ call.header.UncleHash = uncleHash
    /\ call.header.Difficulty >= 0

\* the chain holds the header of this hash and number
ChainHolds(hash, number) == \E h \in chain : Hash(h) = hash /\ h.Number = number

\* the parent is missing, or is not the header of number-1 and of the parent
\* hash; with a parents batch the parent is its last entry
ParentUnknown ==
    IF Len(call.parents) > 0
    THEN LET parent == call.parents[Len(call.parents)]
         IN  \/ parent.Number # call.header.Number - 1
             \/ Hash(parent) # call.header.ParentHash
    ELSE ~ChainHolds(call.header.ParentHash, call.header.Number - 1)

\* The backward walk from (number, hash) meets an entry of the parents batch
\* that is not the header of the wanted hash and number, before it meets a
\* snapshot cached or stored before the call, or the genesis block.
RECURSIVE BatchBroken(_, _, _)
BatchBroken(number, hash, ps) ==
    IF ps = << >> THEN FALSE
    ELSE IF \/ \E sn \in call.recents : sn.Hash = hash
            \/ number % checkpointInterval = 0 /\ \E sn \in call.db : sn.Hash = hash
            \/ number = 0
    THEN FALSE
    ELSE IF Hash(ps[Len(ps)]) # hash \/ ps[Len(ps)].Number # number
    THEN TRUE
    ELSE BatchBroken(number - 1, ps[Len(ps)].ParentHash, SubSeq(ps, 1, Len(ps) - 1))

\* C16: header verification answers UnknownAncestor for every header with
\* number > 0 whose parent is missing, or has not the number number-1, or has
\* not the hash the header names as parent hash; with a non-empty parents
\* batch the parent is the last entry of the batch, and the chain is no
\* fallback, in the cascading check and in the snapshot's backward walk.
C16_UnknownAncestor ==
    AncestorCase =>
        /\ ParentUnknown => call.out = "ErrUnknownAncestor"
        /\ ( /\ ~ParentUnknown
             /\ Len(call.parents) > 0
             /\ call.parents[Len(call.parents)].Time + config.Period <= call.header.Time
             /\ BatchBroken(call.header.Number - 1, call.header.ParentHash, call.parents) )
           => call.out = "ErrUnknownAncestor"

\* the chain holds the parent the header names, the batch ends with another
\* header
C16_Witness ==
    /\ AncestorCase
    /\ Len(call.parents) > 0
    /\ ParentUnknown
    /\ ChainHolds(call.header.ParentHash, call.header.Number - 1)
    /\ call.out = "ErrUnknownAncestor"

-----------------------------------------------------------------------------
(* State sync *)

\* CommitStates was called and Heimdall answered with event records
SyncCase ==
    /\ call.op = "CommitStates"
    /\ call.records # << >>

EventValid(e, last) ==
    /\ e.ID = last + 1
    /\ e.ChainID = ChainID
    /\ e.Time < call.to

\* the identifiers of the longest prefix of valid events
RECURSIVE ValidPrefix(_, _)
ValidPrefix(records, last) ==
    IF records = << >> \/ ~EventValid(Head(records), last) THEN << >>
    ELSE << Head(records).ID >> \o ValidPrefix(Tail(records), last + 1)

\* C18 as stated: CommitStates commits exactly the longest prefix of the
\* fetched events that are each valid (id == last_state_id + 1, the configured
\* chain id, time before the window's end), and returns it without an error.
C18_LongestValidPrefix ==
    SyncCase =>
        /\ call.out.err = "nil"
        /\ call.out.stateSyncs = ValidPrefix(call.records, call.lastStateID)

\* The events left when those with an identifier at or below the last
\* committed one are dropped as they are met
RECURSIVE WithoutStale(_, _)
WithoutStale(records, last) ==
    IF records = << >> THEN << >>
    ELSE IF Head(records).ID <= last THEN WithoutStale(Tail(records), last)
    ELSE IF EventValid(Head(records), last)
    THEN << Head(records) >> \o WithoutStale(Tail(records), last + 1)
    ELSE records

\* C18, amended: CommitStates takes the fetched events in order (only the
\* first n of them when the configuration overrides the block's count with
\* n), skips each event whose id is not above the last committed id, and
\* commits the others as long as each is valid; at the first invalid one it
\* stops, commits neither it nor a later one, and returns the committed ones
\* without an error.  When the commit of an event fails it returns that error
\* and no list.  With last id 10 and events 11, 12, 14 it commits 11 and 12.
C18_SkipStaleThenValidPrefix ==
    SyncCase =>
        LET cut    == IF call.override >= 0 /\ call.override < Len(call.records)
                      THEN SubSeq(call.records, 1, call.override) ELSE call.records
            fresh  == WithoutStale(cut, call.lastStateID)
            prefix == ValidPrefix(fresh, call.lastStateID)
            failed == \E i \in 1..Len(prefix) : fresh[i].commit # "nil"
        IN  /\ IF failed
               THEN call.out.err # "nil" /\ call.out.stateSyncs = << >>
               ELSE /\ call.out.err = "nil"
                    /\ call.out.stateSyncs = prefix
                    /\ statedb.lastStateID = call.lastStateID + Len(prefix)
            /\ ( /\ call.lastStateID = 10
                 /\ call.override = -1
                 /\ [i \in 1..Len(call.records) |-> call.records[i].ID] = << 11, 12, 14 >>
                 /\ \A i \in 1..3 : /\ call.records[i].ChainID = ChainID
                                    /\ call.records[i].Time < call.to
                                    /\ call.records[i].commit = "nil" )
               => /\ call.out.stateSyncs = << 11, 12 >>
                  /\ statedb.lastStateID = 12

\* an event that was committed before comes first, and the one after it is
\* committed
C18_Witness ==
    /\ SyncCase
    /\ call.records[1].ID = call.lastStateID
    /\ call.out.stateSyncs = << call.lastStateID + 1 >>

-----------------------------------------------------------------------------
(* The span commit *)

\* a block was finalized, by either path, and GetCurrentSpan answered with a
\* span
SpanCase ==
    /\ call.op \in { "Finalize", "FinalizeAndAssemble" }
    /\ call.in.current.err = "nil"
    /\ call.in.current.span # << >>

\* the first sprint boundary at or after block n
FirstBoundaryFrom(n) ==
    CHOOSE b \in n..(n + config.Sprint - 1) : b % config.Sprint = 0

\* the span commit was started while the block of the last call was finalized
CommitTriggered == call.number \in finalized.triggered

\* C17 as stated: with sprint 16 and the current span {5, 100, 163},
\* finalizing block 160 triggers the span commit; in general the commit of
\* the next span is triggered at the first sprint boundary at or after
\* end_block - sprint + 1, for a span with end_block > sprint.
C17_CommitAtFirstBoundaryOfLastSprint ==
    SpanCase =>
        LET span == call.in.current.span[1]
        IN  /\ ( /\ config.Sprint = 16
                 /\ span = [ID |-> 5, StartBlock |-> 100, EndBlock |-> 163]
                 /\ call.number = 160 )
               => CommitTriggered
            /\ ( /\ span.EndBlock > config.Sprint
                 /\ call.number = FirstBoundaryFrom(span.EndBlock - config.Sprint + 1) )
               => CommitTriggered

\* C17, amended: the span commit is triggered at a block exactly when the
\* block's number is a multiple of the sprint and the current span's end is 0
\* or the span's end is above the sprint and the number is end - sprint + 1.
\* So a span whose end + 1 is a multiple of the sprint has the commit of its
\* successor triggered once, at end - sprint + 1 (block 160 for sprint 16 and
\* the span {5, 100, 175}), and for another span with end > sprint, such as
\* {5, 100, 163}, no block triggers it, block 160 included.
C17_CommitOnlyAtAlignedBlock ==
    SpanCase =>
        LET span == call.in.current.span[1]
        IN  /\ CommitTriggered
               <=> /\ call.number % config.Sprint = 0
                   /\ \/ span.EndBlock = 0
                      \/ /\ span.EndBlock > config.Sprint
                         /\ call.number = span.EndBlock - config.Sprint + 1
            /\ ( config.Sprint = 16 /\ span.EndBlock = 175 /\ call.number = 160 )
               => CommitTriggered
            /\ ( config.Sprint = 16 /\ span.EndBlock = 163 ) => finalized.triggered = {}
            /\ ( /\ span = statedb.spans[1]
                 /\ span.EndBlock > config.Sprint
                 /\ (span.EndBlock + 1) % config.Sprint # 0 )
               => finalized.triggered = {}

\* scenario S5: block 160 was finalized and no span commit was started
C17_Witness ==
    /\ SpanCase
    /\ config.Sprint = 16
    /\ call.in.current.span[1] = [ID |-> 5, StartBlock |-> 100, EndBlock |-> 163]
    /\ call.number = 160
    /\ finalized.number = 160
    /\ ~CommitTriggered

-----------------------------------------------------------------------------
(* Errors of the span commit in the two paths *)

\* a sprint-boundary block was finalized and its span commit failed: the
\* current span could not be read, or Heimdall was asked for the next span and
\* failed or answered for another chain
SpanCommitFailed ==
    /\ call.op \in { "Finalize", "FinalizeAndAssemble" }
    /\ call.number % config.Sprint = 0
    /\ \/ call.in.current.err # "nil"
       \/ call.in.heimdallSpan.err = "fetch failed"
       \/ /\ call.in.heimdallSpan.err = "nil"
          /\ call.in.heimdallSpan.ChainID # ChainID

\* C19: when the span commit fails at a sprint-boundary block, Finalize logs
\* the error, returns nothing and the import goes on to the next block, while
\* FinalizeAndAssemble returns the error and no block.
C19_FinalizeSwallowsAssembleReturns ==
    SpanCommitFailed =>
        IF call.op = "Finalize"
        THEN /\ call.returned = "nothing"
             /\ call.log # {}
             /\ finalized.number = call.number
        ELSE /\ call.returned.err # "nil"
             /\ call.returned.err \in call.log
             /\ call.returned.block = << >>
             /\ finalized.number = call.number - 1

\* FinalizeAndAssemble met a span of another chain
C19_Witness ==
    /\ SpanCommitFailed
    /\ call.op = "FinalizeAndAssemble"
    /\ call.in.current.err = "nil"
    /\ call.in.heimdallSpan.err = "nil"
    /\ call.returned.block = << >>

-----------------------------------------------------------------------------
(* Snapshots and their anchors *)

\* the snapshot at a header of the chain, looked up with the LRU rec and the
\* store given
SnapshotAt(rec, store, h) ==
    snapshot(config, contractVals, chain, rec, store, h.Number, Hash(h), << >>)

\* C20: for every header of the chain the snapshot lookup gives the same
\* snapshot with the LRU and the store as they are, with the LRU alone, with
\* the store alone and with both empty (the replay from the genesis block): the
\* result does not depend on the anchor the replay starts from.
C20_SnapshotIndependentOfAnchor ==
    \A h \in chain :
        /\ SnapshotAt(recents, db, h).err = "nil"
        /\ SnapshotAt(recents, db, h).snap = SnapshotAt({}, {}, h).snap
        /\ SnapshotAt(recents, {}, h).snap = SnapshotAt({}, {}, h).snap
        /\ SnapshotAt({}, db, h).snap = SnapshotAt({}, {}, h).snap

\* the LRU holds the snapshot at a block after the genesis block and an
\* earlier one, the store the genesis snapshot
C20_Witness ==
    /\ \E h \in chain, g \in chain :
         /\ g.Number < h.Number
         /\ h.Number >= 1
         /\ Lookup(recents, Hash(h)) # << >>
         /\ Lookup(recents, Hash(g)) # << >>
    /\ db # {}

-----------------------------------------------------------------------------
(* Claim C22 *)

\* the base delay of the specification: producer_delay on a block whose
\* number is a multiple of the sprint, period on any other
BaseDelay(number) ==
    IF number % config.Sprint = 0 THEN config.ProducerDelay ELSE config.Period

\* C22: CalcProducerDelay(number, succession, cfg) is the base delay plus
\* succession times the backup multiplier, for every number, every
\* succession >= 0 and every configuration
C22_DelayIsBasePlusBackup ==
    call.op = "CalcProducerDelay" =>
        call.out = BaseDelay(call.number) + call.succession * config.BackupMultiplier

C22_Witness ==
    /\ call.op = "CalcProducerDelay"
    /\ call.number > 0 /\ call.number % config.Sprint = 0
    /\ call.succession > 0
    /\ config.ProducerDelay # config.Period /\ config.BackupMultiplier > 0
    /\ call.out = config.ProducerDelay + call.succession * config.BackupMultiplier

-----------------------------------------------------------------------------
(* Claim C25 *)

\* the call is one of needToCommitSpan on a span that is set
OnSetSpan ==
    /\ call.op = "needToCommitSpan"
    /\ call.span # << >>
    /\ call.span[1].EndBlock # 0

\* the header is the first block of the span's last sprint, of a span longer
\* than a sprint
FirstOfLastSprint ==
    /\ call.span[1].EndBlock > config.Sprint
    /\ call.headerNumber = call.span[1].EndBlock - config.Sprint + 1

\* C25: needToCommitSpan is false without a current span, true for a span
\* whose end block is 0, true for a span longer than a sprint at the first
\* block of its last sprint, and false in every other case
C25_needToCommitSpanCases ==
    call.op = "needToCommitSpan" =>
        /\ call.span = << >> => call.out = FALSE
        /\ (call.span # << >> /\ call.span[1].EndBlock = 0) => call.out = TRUE
        /\ OnSetSpan => (call.out <=> FirstOfLastSprint)

C25_Witness ==
    /\ OnSetSpan
    /\ FirstOfLastSprint
    /\ call.out = TRUE

-----------------------------------------------------------------------------
(* Claims C23 and C24 *)

\* Prepare has just returned nil for the header of prep
Prepared == prep.pc = "prepared"

\* the header Prepare found as the parent
PreparedParent == CHOOSE h \in chain : Hash(h) = prep.header.ParentHash

\* the succession number of the configured signer in the parent's snapshot, 0
\* when no signer is configured
PreparedSuccession ==
    IF signer = ZeroAddress THEN 0
    ELSE GetSignerSuccessionNumber(SnapshotAt(recents, db, PreparedParent).snap,
                                   signer).n

\* C23: after a successful Prepare, header.time is the larger of
\* parent.time + producer_delay(number, succession) and now, the succession
\* being 0 when the signer is the zero address
C23_PreparedTime ==
    Prepared =>
        prep.header.Time =
            Max(PreparedParent.Time
                  + producer_delay(prep.header.Number, PreparedSuccession),
                prep.preparedAt)

\* ... for a signer that is not in turn, whose delayed time is ahead of the clock
C23_Witness ==
    /\ Prepared
    /\ signer # ZeroAddress /\ PreparedSuccession > 0
    /\ config.BackupMultiplier > 0
    /\ prep.header.Time > prep.preparedAt

\* the first n bytes of bs, zeros where bs has none
PaddedPrefix(bs, n) == [i \in 1..n |-> IF i <= Len(bs) THEN bs[i] ELSE 0]

\* the 40-byte entries of the validators the contract reports for the next
\* block, by ascending address (SortedBytes orders them itself)
PreparedValidatorBytes ==
    IF (prep.header.Number + 1) % config.Sprint = 0
    THEN ReportedBytes(prep.header.Number + 1)
    ELSE << >>

\* C24: after a successful Prepare the extra-data is the 32 vanity bytes (the
\* original ones, cut or zero-padded), then the address-sorted validator
\* entries exactly when (number+1) mod sprint = 0, then 65 zero bytes; so it
\* is at least 97 bytes long and the validator region a multiple of 40
C24_PreparedExtra ==
    Prepared =>
        /\ prep.header.Extra = PaddedPrefix(prep.extra, extraVanity)
                                 \o PreparedValidatorBytes
                                 \o [i \in 1..extraSeal |-> 0]
        /\ Len(prep.header.Extra) >= 97
        /\ (Len(prep.header.Extra) - 97) % 40 = 0
        /\ (Len(prep.header.Extra) > 97) <=> ((prep.header.Number + 1) % config.Sprint = 0)

C24_Witness ==
    /\ Prepared
    /\ Len(prep.extra) > extraVanity
    /\ (prep.header.Number + 1) % config.Sprint = 0
    /\ Len(prep.header.Extra) = 97 + 40 * Len(GetCurrentValidators(contractVals, prep.header.Number + 1))

-----------------------------------------------------------------------------
(* Claim C26 *)

\* the last call finalized a block and started a span commit: the current
\* span was read and needed its successor at this block
SpanCommitStarted ==
    /\ call.op \in { "Finalize", "FinalizeAndAssemble" }
    /\ call.number % config.Sprint = 0
    /\ call.in.current.err = "nil"
    /\ CommitTriggered

\* Heimdall answered with a span of another chain
OtherChainSpan ==
    /\ call.in.heimdallSpan.err = "nil"
    /\ call.in.heimdallSpan.ChainID # ChainID

ChainIdError == "Chain id proposed span and bor chain id doesn't match"

\* C26: a span commit asks Heimdall for the span (current span id + 1), and
\* only for it; when the fetched span's chain id is not the engine's, the
\* commit fails with an error, no system message is executed and the state
\* stays as it was
C26_NextSpanRequestedChainIdChecked ==
    /\ call.op \in { "Finalize", "FinalizeAndAssemble" } =>
          call.requested = IF SpanCommitStarted
                           THEN << call.in.current.span[1].ID + 1 >>
                           ELSE << >>
    /\ (SpanCommitStarted /\ OtherChainSpan) =>
          /\ call.log = { ChainIdError }
          /\ call.op = "FinalizeAndAssemble" => call.returned.err = ChainIdError
          /\ call.messages = 0
          /\ statedb = call.statedb
    /\ (SpanCommitStarted /\ call.messages = 1 /\ ~call.finalised /\ call.log = {}) =>
          statedb.spans[Len(statedb.spans)].ID = call.in.current.span[1].ID + 1

C26_Witness ==
    /\ SpanCommitStarted
    /\ OtherChainSpan
    /\ call.in.current.span[1].ID = 5
    /\ call.requested = << 6 >>
    /\ call.messages = 0

-----------------------------------------------------------------------------
(* Claim C27 *)

\* the span commit of the last call executed its system message and the EVM
\* call failed
CommitSpanFailedInEVM ==
    /\ SpanCommitStarted
    /\ call.in.heimdallSpan.err = "nil"
    /\ call.in.heimdallSpan.ChainID = ChainID
    /\ call.in.heimdallSpan.evm # "nil"

\* the same call from the same state with an EVM that executes commitSpan
WithWorkingEVM ==
    LET in == [call.in EXCEPT !.heimdallSpan.evm = "nil"]
    IN  IF call.op = "Finalize"
        THEN Finalize(config, call.statedb, call.number, in)
        ELSE FinalizeAndAssemble(config, call.statedb, call.number, in)

\* C27: a system message whose EVM call fails reports no error: the state is
\* finalised, the error is swallowed and the span commit succeeds, so that
\* Finalize and FinalizeAndAssemble return, log and set the root as they do
\* after a commit that was executed
C27_SystemMessageErrorSwallowed ==
    CommitSpanFailedInEVM =>
        /\ call.messages = 1
        /\ call.finalised
        /\ call.in.heimdallSpan.evm \notin call.log
        /\ call.returned = WithWorkingEVM.returned
        /\ call.log = WithWorkingEVM.log
        /\ call.rootSet = WithWorkingEVM.rootSet
        /\ call.stateSyncs = WithWorkingEVM.stateSyncs

\* ... at a block that is then assembled, without the new span in the state
C27_Witness ==
    /\ CommitSpanFailedInEVM
    /\ call.op = "FinalizeAndAssemble"
    /\ call.returned.err = "nil"
    /\ call.rootSet
    /\ statedb.spans = call.statedb.spans
    /\ WithWorkingEVM.statedb.spans # call.statedb.spans

-----------------------------------------------------------------------------
(* Claim C28 *)

\* the last call was a snapshot lookup
LookedUp == call.op = "snapshot"

\* the lookup materialized the genesis snapshot: its walk ended at block 0
\* with the snapshot neither in the LRU nor in the store
GenesisMaterialized ==
    /\ call.anchor # << >>
    /\ call.anchor.Number = 0
    /\ Lookup(call.recents, call.anchor.Hash) = << >>
    /\ Lookup(call.db, call.anchor.Hash) = << >>

\* the lookup replayed headers up to a checkpoint block
CheckpointReplayed ==
    /\ call.out = "nil"
    /\ call.snap.Number % 1024 = 0
    /\ Len(call.headers) > 0

\* C28: a snapshot lookup writes to the store exactly the genesis snapshot it
\* materializes and the snapshot it replayed headers for when that one's
\* number is a multiple of 1024; answered from the LRU without a header
\* replayed it writes nothing; and every successful lookup leaves its result
\* in the LRU under the snapshot's hash
C28_StoreWrittenAtGenesisAndCheckpoint ==
    LookedUp =>
        /\ db = call.db
                \cup (IF GenesisMaterialized THEN { call.anchor } ELSE {})
                \cup (IF CheckpointReplayed THEN { call.snap } ELSE {})
        /\ GenesisMaterialized => call.anchor \notin call.db
        /\ CheckpointReplayed => call.snap \notin call.db
        /\ Lookup(call.recents, call.hash) # << >> =>
              /\ call.headers = << >>
              /\ db = call.db
        /\ call.out = "nil" =>
              /\ call.snap.Hash = call.hash
              /\ Lookup(recents, call.hash) = << call.snap >>

\* ... a lookup that replayed block 1024 on the cached snapshot of block 1023
\* and wrote the checkpoint
C28_Witness ==
    /\ LookedUp
    /\ CheckpointReplayed
    /\ ~GenesisMaterialized
    /\ call.number = 1024
    /\ call.db = {}
    /\ db = { call.snap }

-----------------------------------------------------------------------------
(* Claim C29 *)

\* the last checkpoint block at or before block n
CheckpointBefore(n) == n - (n % 1024)

\* The lookup can be followed in the model: the headers down to the last
\* checkpoint before its block are held by the chain reader, and a block
\* after that checkpoint was verified (block 0 needs none: the genesis
\* snapshot is built on demand)
WalkModelled ==
    /\ LookedUp
    /\ CheckpointBefore(call.number) >= Base(chain).Number
    /\ \/ CheckpointBefore(call.number) = 0
       \/ Tip(chain).Number > CheckpointBefore(call.number)

\* C29: on a chain whose blocks were verified in order, a snapshot lookup,
\* with the LRU empty too, reaches an anchor (LRU entry, stored checkpoint or
\* genesis) after gathering at most 1024 headers: none older than the last
\* checkpoint before its block
C29_WalkReachesCheckpoint ==
    /\ LookedUp => Len(call.headers) <= 1024
    /\ WalkModelled =>
          /\ call.out = "nil"
          /\ call.anchor.Number >= CheckpointBefore(call.number)
          /\ Len(call.headers) = call.number - call.anchor.Number
          /\ Len(call.headers) <= call.number - CheckpointBefore(call.number)

\* ... after a restart, for the block after the checkpoint's: the walk ends
\* at the checkpoint that the verification of that block stored
C29_Witness ==
    /\ WalkModelled
    /\ call.recents = {}
    /\ call.number = 1025
    /\ call.anchor.Number = 1024
    /\ call.anchor \in call.db
    /\ Len(call.headers) = 1

-----------------------------------------------------------------------------
(* Claim C30 *)

\* the last call was one of getUpdatedValidatorSet
SetUpdated == call.op = "getUpdatedValidatorSet"

\* the addresses and powers of a validator list
Powers(vals) == { << vals[i].Address, vals[i].VotingPower >> : i \in 1..Len(vals) }

\* the first entry of each address in a list, when its power is not 0
FirstPositive(vals) ==
    { << vals[i].Address, vals[i].VotingPower >> :
        i \in { k \in 1..Len(vals) :
                  /\ vals[k].VotingPower # 0
                  /\ \A j \in 1..(k - 1) : vals[j].Address # vals[k].Address } }

-----------------------------------------------------------------------------
(* C21: cached snapshots are not written *)

\* the snapshot the cached object e.ref holds now is the one that was added to
\* the LRU
AsInserted(e) ==
    LET now_ == Deref(heap, e.ref)
    IN  /\ now_.Number = e.inserted.Number
        /\ now_.Hash = e.inserted.Hash
        /\ now_.ValidatorSet = e.inserted.ValidatorSet

\* a lookup found its anchor in the LRU and applied headers on it that changed
\* the validators or their powers
UpdatedFromCached ==
    /\ LookedUp
    /\ call.out = "nil"
    /\ call.anchor \in call.recents
    /\ call.headers # << >>
    /\ Powers(call.snap.ValidatorSet.Validators)
         # Powers(call.anchor.ValidatorSet.Validators)

\* C21: whatever lookups, verifications and validator-set updates have run,
\* every snapshot in the LRU has the number, the hash and the validator set
\* (members, powers, priorities and proposer) it had when it was added, and the
\* LRU holds exactly the snapshots the lookups cached
C21_CachedSnapshotsNotMutated ==
    /\ \A e \in heap.lru : AsInserted(e) /\ e.Hash = e.inserted.Hash
    /\ { e.inserted : e \in heap.lru } = recents

\* a lookup applied a sprint-end header with new validators on a snapshot it
\* found in the LRU; that snapshot and the new one are cached as two objects
\* with two validator sets
C21_Witness ==
    /\ UpdatedFromCached
    /\ \E e, f \in heap.lru :
         /\ e.inserted = call.anchor
         /\ f.inserted = call.snap
         /\ e.ref # f.ref
         /\ heap.snaps[e.ref].ValidatorSet # heap.snaps[f.ref].ValidatorSet
         /\ Deref(heap, e.ref) = call.anchor

-----------------------------------------------------------------------------
(* C31: the VerifyHeaders worker terminates *)

WorkerRunning == vh.pc \in { "loop", "select" }

WorkerDone == vh.pc = "done"

\* at the select the send is ready: the channel has room for the verdict
SendReady == vh.pc = "select" => Len(vh.results) < ResultsCapacity(vh.headers)

\* the worker moves forward through the batch, one header at a time, and not
\* past its end
OnePass ==
    /\ vh'.i \in { vh.i, vh.i + 1 }
    /\ vh'.i <= Len(vh'.headers)

\* C31: whatever the caller does (receives all verdicts, none, or aborts at
\* any point), the worker never waits at the send, goes over the batch at
\* most once, and ends
C31_WorkerTerminates ==
    /\ []SendReady
    /\ [][OnePass]_vars
    /\ WorkerRunning ~> WorkerDone

\* the worker went through a batch of MaxBatch headers and ended while the
\* caller neither received a verdict nor aborted: every verdict is in the
\* channel
C31_Witness ==
    /\ WorkerDone
    /\ Len(vh.headers) = MaxBatch
    /\ vh.i = MaxBatch
    /\ Len(vh.results) = MaxBatch
    /\ vh.got = << >>
    /\ ~vh.abort

-----------------------------------------------------------------------------
(* C32: VerifyHeaders and VerifyHeader agree *)

\* each header of the batch is the child of the one before it
LinkedBatch(headers) ==
    \A k \in 2..Len(headers) :
        /\ headers[k].Number = headers[k - 1].Number + 1
        /\ headers[k].ParentHash = Hash(headers[k - 1])

\* the chain once the first k - 1 headers of the batch are part of it
ChainWith(headers, k) == chain \cup { headers[j] : j \in 1..(k - 1) }

\* VerifyHeader(chain, headers[k]) on that chain, the caches being rec and
\* store
SingleVerdict(headers, k, rec, store) ==
    verifyHeader(config, contractVals, ChainWith(headers, k), rec, store, now,
                 headers[k], << >>).err

\* C32: for a batch whose headers are each the child of the one before, every
\* verdict VerifyHeaders has sent is the verdict of VerifyHeader for that
\* header on the chain that holds the headers before it, whether the engine's
\* caches are empty or as the batch has left them
C32_BatchVerdictIsSingleVerdict ==
    LinkedBatch(vh.headers) =>
        \A k \in 1..Len(Sent) :
            /\ Sent[k] = SingleVerdict(vh.headers, k, {}, {})
            /\ Sent[k] = SingleVerdict(vh.headers, k, recents, db)

\* a linked batch of two headers was verified to its end: the first header was
\* refused, the second accepted on top of it
C32_Witness ==
    /\ vh.pc = "done"
    /\ Len(vh.headers) = 2
    /\ LinkedBatch(vh.headers)
    /\ Len(Sent) = 2
    /\ Sent[1] # "nil"
    /\ Sent[2] = "nil"

-----------------------------------------------------------------------------
(* C33: one signer per Prepare *)

\* Prepare has returned a header
PrepareReturned == call.op = "Prepare" /\ call.out = "nil"

\* the header Prepare returns when c.signer is a, unchanged, during the call
PreparedFor(a) ==
    PrepareReading(config, contractVals, chain, now, a, a, a,
                   FreshHeader(chain, << >>), call.s).header

\* C33: the header Prepare returns has the difficulty and the time of one
\* signer address, also when Authorize runs beside it, and the signer
\* CalcDifficulty reads is never half of one address and half of another
C33_OneSignerPerCall ==
    /\ PrepareReturned => \E a \in 0..NumAddrs : call.header = PreparedFor(a)
    /\ call.op = "CalcDifficulty" => call.read[1] = call.read[2]

-----------------------------------------------------------------------------
(* Finalize after a failed step *)

\* the state-sync commit of the finalized block fails: CommitStates, run on
\* the state the call started from with what Heimdall answered, returns an
\* error
StateSyncFailed ==
    /\ call.number % config.Sprint = 0
    /\ CommitStates(call.statedb.lastStateID, call.in.events, -1, call.in.to).err
         # "nil"

\* the contract-code override of the finalized block fails
OverrideFailed ==
    /\ call.number \in DOMAIN BlockAlloc(config)
    /\ decodeGenesisAlloc(BlockAlloc(config)[call.number]) # "nil"

\* Finalize returned before header.Root, header.UncleHash and SetStateSync
ReturnedAtOnce ==
    /\ call.returned = "nothing"
    /\ call.log # {}
    /\ ~call.rootSet
    /\ ~call.uncleSet
    /\ \A k \in 1..Len(call.steps) : call.steps[k] # "SetStateSync"
    /\ call.stateSyncs = << >>

\* C34: when the span commit, the state-sync commit or the contract-code
\* override fails inside Finalize, Finalize returns at once: header.Root and
\* header.UncleHash are not set, no state-sync data is handed to the chain and
\* the steps after the failed one do not run; after a failed span commit no
\* state sync is committed and no code is overridden.
C34_FinalizeStopsAtFailedStep ==
    call.op = "Finalize" =>
        /\ SpanCommitFailed =>
              /\ ReturnedAtOnce
              /\ call.steps = << "checkAndCommitSpan" >>
              /\ ~call.codeSet
              /\ statedb = call.statedb
        /\ ~SpanCommitFailed /\ StateSyncFailed =>
              /\ ReturnedAtOnce
              /\ call.steps = << "checkAndCommitSpan", "CommitStates" >>
              /\ ~call.codeSet
        /\ ~SpanCommitFailed /\ ~StateSyncFailed /\ OverrideFailed =>
              /\ ReturnedAtOnce
              /\ call.steps[Len(call.steps)] = "changeContractCodeIfNeeded"
              /\ ~call.codeSet

\* the span commit of a sprint-boundary block with a code entry failed while
\* Heimdall had a valid event to commit: neither the event nor the code went
\* in
C34_Witness ==
    /\ call.op = "Finalize"
    /\ SpanCommitFailed
    /\ ~StateSyncFailed
    /\ call.in.events.records # << >>
    /\ call.in.events.records[1].ChainID = ChainID
    /\ call.number \in DOMAIN BlockAlloc(config)
    /\ call.steps = << "checkAndCommitSpan" >>
    /\ statedb.lastStateID = call.statedb.lastStateID

====
